---- MODULE Spec2Model ----
(***************************************************************************)
(* Model of the South African (JSE) layer of ai-hedge-fund:                *)
(*   src/src/config/sa_market_config.py   market configuration, validator  *)
(*   src/src/data/sa_data_adapter.py      data adapter with its cache      *)
(*   src/src/agents/sa_market_analyst.py  the three analyst agents         *)
(*   src/src/sa_main.py, sa_backtester.py the ticker validation of main()  *)
(*                                                                         *)
(* Spec runs the adapter functions, SpecAnalyst an entry point and the     *)
(* market analyst, SpecCompliance the compliance agent, SpecCurrency the   *)
(* currency agent.                                                         *)
(*                                                                         *)
(* Conventions.  A Python str that the code inspects character by          *)
(* character (tickers, cache keys, formatted percentages) is a sequence of *)
(* one-character strings.  A Python value is a tagged record: PyNone,      *)
(* PyList(seq), PyDict(function).  A float is an integer number of         *)
(* ten-thousandths (0.05 is 500, confidence 0.5 is 5000, 6.0 is 60000);    *)
(* ratios are compared exactly, as fractions.                              *)
(***************************************************************************)
EXTENDS Integers, Sequences, FiniteSets, TLC

VARIABLES
    sa_config,   \* the global SAMarketConfig instance (sa_market_config.py:119)
    cache,       \* the global cache _cache: kind -> (key -> stored value)
    last,        \* the last operation: its name, arguments, upstream calls, result
    fetched,     \* history: the cache keys a fetch has already returned data for
    wrote,       \* history: for each written key, the result its writer returned
    remembered,  \* history: one earlier sector lookup, kept to compare with later ones
    state,       \* the shared analysis state handed to the agents
    pc,          \* control: cli / idle / loop (in the analyst) / raised / exit
    idx,         \* sa_market_analyst_agent: index of the next ticker of the loop
    ticker_analyses, \* sa_market_analyst_agent: the local result mapping
    llm_failed,  \* history: tickers whose LLM call or reply parsing failed in this run
    ran,         \* history: the agents that were invoked in this pipeline pass
    scenario     \* which part of the program this run exercises (never changes)

vars == <<sa_config, cache, last, fetched, wrote, remembered, state, pc, idx,
          ticker_analyses, llm_failed, ran, scenario>>

adapterVars == <<cache, fetched, wrote>>
agentVars == <<state, pc, idx, ticker_analyses, llm_failed, ran>>

(***************************************************************************)
(* Bounds of the model.                                                    *)
(***************************************************************************)
MaxLen == 1       \* longest list of items in an upstream reply
MaxTickers == 2   \* longest ticker list in the analysis state
MaxShares == 2    \* largest number of shares of a portfolio position

(***************************************************************************)
(* Python values.                                                          *)
(***************************************************************************)
PyNone == [t |-> "None"]
PyList(s) == [t |-> "list", v |-> s]
PyDict(d) == [t |-> "dict", v |-> d]
PyObj(m) == [t |-> "object", v |-> m]
PyBool(b) == [t |-> "bool", v |-> b]
PyStr(s) == [t |-> "str", v |-> s]
PyFloat(n) == [t |-> "float", v |-> n]
PyRaise(e) == [t |-> "raise", v |-> e]

\* bool(x) as `if x:` and the walrus tests use it
Truthy(x) ==
    CASE x.t = "None" -> FALSE
      [] x.t = "list" -> x.v # <<>>
      [] x.t = "dict" -> DOMAIN x.v # {}
      [] x.t = "bool" -> x.v
      [] x.t = "str" -> Len(x.v) > 0
      [] OTHER -> TRUE

Letters ==
    {"A","B","C","D","E","F","G","H","I","J","K","L","M","N","O","P","Q","R","S",
     "T","U","V","W","X","Y","Z","a","b","c","d","e","f","g","h","i","j","k","l",
     "m","n","o","p","q","r","s","t","u","v","w","x","y","z"}

\* str.isalpha(): non-empty and every character alphabetic
isalpha(s) == Len(s) > 0 /\ \A i \in 1..Len(s) : s[i] \in Letters

Range(s) == {s[i] : i \in DOMAIN s}

(***************************************************************************)
(* The market configuration (SAMarketConfig defaults), floats in           *)
(* ten-thousandths: MAX_POSITION_SIZE 0.05 is 500, MAX_SECTOR_EXPOSURE     *)
(* 0.30 is 3000.                                                           *)
(***************************************************************************)
\* the ticker symbols of the source, as character sequences
Sym ==
    [NPN |-> <<"N","P","N">>,
     BHP |-> <<"B","H","P">>,
     AGL |-> <<"A","G","L">>,
     MTN |-> <<"M","T","N">>,
     VOD |-> <<"V","O","D">>,
     SBK |-> <<"S","B","K">>,
     FSR |-> <<"F","S","R">>,
     NED |-> <<"N","E","D">>,
     ABG |-> <<"A","B","G">>,
     SOL |-> <<"S","O","L">>,
     IMP |-> <<"I","M","P">>,
     ANG |-> <<"A","N","G">>,
     AMS |-> <<"A","M","S">>,
     SHP |-> <<"S","H","P">>,
     WHL |-> <<"W","H","L">>,
     TBS |-> <<"T","B","S">>,
     BID |-> <<"B","I","D">>,
     TFG |-> <<"T","F","G">>,
     MRP |-> <<"M","R","P">>,
     CLS |-> <<"C","L","S">>,
     AAPL |-> <<"A","A","P","L">>]

\* an index code "JSE:Jabc"
JSEIndex(a, b, c) == <<"J","S","E",":","J",a,b,c>>

\* a mutant of SAMarketConfig: the allow-list lacks its last ticker
SAMarketConfigShortList ==
    [EXCHANGE_NAME |-> "JSE",
     EXCHANGE_CODE |-> "JSE",
     CURRENCY |-> "ZAR",
     CURRENCY_SYMBOL |-> "R",
     SETTLEMENT_DAYS |-> 3,
     MAJOR_INDICES |-> <<JSEIndex("2","0","3"), JSEIndex("2","0","0"),
                         JSEIndex("2","5","0"), JSEIndex("5","8","0"),
                         JSEIndex("4","3","3"), JSEIndex("2","1","0"),
                         JSEIndex("2","1","1")>>,
     SECTORS |-> <<"Financial Services", "Mining & Resources", "Industrial",
                   "Consumer Goods", "Technology", "Healthcare", "Real Estate",
                   "Telecommunications", "Energy", "Transportation">>,
     TOP_STOCKS |-> <<Sym.NPN, Sym.BHP, Sym.AGL, Sym.MTN, Sym.VOD, Sym.SBK, Sym.FSR,
                      Sym.NED, Sym.ABG, Sym.SOL, Sym.IMP, Sym.ANG,
                      Sym.AMS, Sym.SHP, Sym.WHL, Sym.TBS, Sym.BID, Sym.TFG, Sym.MRP>>,
     REGULATORY_BODY |-> "FSCA",
     EXCHANGE_CONTROLS |-> TRUE,
     MAX_POSITION_SIZE |-> 500,
     MAX_SECTOR_EXPOSURE |-> 3000,
     STOP_LOSS_PERCENTAGE |-> 1500,
     MAX_DAILY_DRAWDOWN |-> 200,
     RISK_FACTORS |-> <<"Currency volatility (ZAR)", "Political risk",
                        "Load shedding impact", "Commodity price exposure",
                        "Emerging market volatility", "Regulatory changes",
                        "Infrastructure challenges">>,
     ECONOMIC_INDICATORS |-> <<"SA_CPI", "SA_REPO_RATE", "SA_GDP", "SA_UNEMPLOYMENT",
                               "SA_CURRENT_ACCOUNT", "SA_BUDGET_DEFICIT",
                               "SA_CREDIT_RATING">>]

SAMarketConfig ==
    [EXCHANGE_NAME |-> "JSE",
     EXCHANGE_CODE |-> "JSE",
     CURRENCY |-> "ZAR",
     CURRENCY_SYMBOL |-> "R",
     SETTLEMENT_DAYS |-> 3,
     MAJOR_INDICES |-> <<JSEIndex("2","0","3"), JSEIndex("2","0","0"),
                         JSEIndex("2","5","0"), JSEIndex("5","8","0"),
                         JSEIndex("4","3","3"), JSEIndex("2","1","0"),
                         JSEIndex("2","1","1")>>,
     SECTORS |-> <<"Financial Services", "Mining & Resources", "Industrial",
                   "Consumer Goods", "Technology", "Healthcare", "Real Estate",
                   "Telecommunications", "Energy", "Transportation">>,
     TOP_STOCKS |-> <<Sym.NPN, Sym.BHP, Sym.AGL, Sym.MTN, Sym.VOD, Sym.SBK, Sym.FSR,
                      Sym.NED, Sym.ABG, Sym.SOL, Sym.IMP, Sym.ANG,
                      Sym.AMS, Sym.SHP, Sym.WHL, Sym.TBS, Sym.BID, Sym.TFG, Sym.MRP, Sym.CLS>>,
     REGULATORY_BODY |-> "FSCA",
     EXCHANGE_CONTROLS |-> TRUE,
     MAX_POSITION_SIZE |-> 500,
     MAX_SECTOR_EXPOSURE |-> 3000,
     STOP_LOSS_PERCENTAGE |-> 1500,
     MAX_DAILY_DRAWDOWN |-> 200,
     RISK_FACTORS |-> <<"Currency volatility (ZAR)", "Political risk",
                        "Load shedding impact", "Commodity price exposure",
                        "Emerging market volatility", "Regulatory changes",
                        "Infrastructure challenges">>,
     ECONOMIC_INDICATORS |-> <<"SA_CPI", "SA_REPO_RATE", "SA_GDP", "SA_UNEMPLOYMENT",
                               "SA_CURRENT_ACCOUNT", "SA_BUDGET_DEFICIT",
                               "SA_CREDIT_RATING">>]

\* the module-level alias TOP_STOCKS = sa_config.TOP_STOCKS (the same list object)
TOP_STOCKS == sa_config.TOP_STOCKS

\* a mutant of is_jse_ticker: the membership test is lost
is_jse_ticker_format_only(ticker) ==
    Len(ticker) >= 3 /\ Len(ticker) <= 4 /\ isalpha(ticker)

is_jse_ticker(ticker) ==
    /\ Len(ticker) >= 3
    /\ Len(ticker) <= 4
    /\ isalpha(ticker)
    /\ ticker \in Range(sa_config.TOP_STOCKS)

\* a mutant of validate_sa_ticker: every well-formed ticker is accepted
validate_sa_ticker_well_formed(ticker) ==
    Len(ticker) >= 3 /\ Len(ticker) <= 4 /\ isalpha(ticker)

\* a mutant of validate_sa_ticker: only the first allow-listed ticker is accepted
validate_sa_ticker_first_only(ticker) ==
    is_jse_ticker(ticker) /\ ticker = sa_config.TOP_STOCKS[1]

validate_sa_ticker(ticker) ==
    is_jse_ticker(ticker) /\ ticker \in Range(sa_config.TOP_STOCKS)

(***************************************************************************)
(* Sector lookup (SADataAdapter.get_sa_sector_exposure): dict.get on the   *)
(* function-local sector_mapping literal.                                  *)
(***************************************************************************)
sector_mapping ==
    (Sym.SBK :> "Financial Services") @@ (Sym.FSR :> "Financial Services") @@
    (Sym.NED :> "Financial Services") @@ (Sym.ABG :> "Financial Services") @@
    (Sym.BHP :> "Mining & Resources") @@ (Sym.AGL :> "Mining & Resources") @@
    (Sym.SOL :> "Mining & Resources") @@ (Sym.IMP :> "Mining & Resources") @@
    (Sym.ANG :> "Mining & Resources") @@ (Sym.AMS :> "Mining & Resources") @@
    (Sym.SHP :> "Consumer Goods") @@ (Sym.WHL :> "Consumer Goods") @@
    (Sym.TBS :> "Consumer Goods") @@ (Sym.BID :> "Consumer Goods") @@
    (Sym.TFG :> "Consumer Goods") @@ (Sym.MRP :> "Consumer Goods") @@
    (Sym.CLS :> "Consumer Goods") @@
    (Sym.MTN :> "Telecommunications") @@ (Sym.VOD :> "Telecommunications") @@
    (Sym.NPN :> "Technology")

\* a mutant of get_sa_sector_exposure: the lookup is skipped while the cache is cold
get_sa_sector_exposure_cold(ticker) ==
    IF ticker \in DOMAIN sector_mapping /\ DOMAIN cache["company_facts"] # {}
    THEN PyStr(sector_mapping[ticker])
    ELSE PyNone

get_sa_sector_exposure(ticker) ==
    IF ticker \in DOMAIN sector_mapping THEN PyStr(sector_mapping[ticker]) ELSE PyNone

(***************************************************************************)
(* The cache collaborator (src.data.cache): one key -> value store per     *)
(* data kind; a get of an absent key gives None, a set stores the value.   *)
(***************************************************************************)
CacheKinds ==
    {"prices", "financial_metrics", "news", "company_facts", "economic_indicators",
     "fx_rates"}

EmptyCache == [k \in CacheKinds |-> <<>>]

cache_get(c, kind, key) == IF key \in DOMAIN c[kind] THEN c[kind][key] ELSE PyNone

cache_set(c, kind, key, value) == [c EXCEPT ![kind] = (key :> value) @@ @]

(***************************************************************************)
(* Typed records (src.data.models): construction from a dict by keyword   *)
(* arguments, and model_dump().                                            *)
(***************************************************************************)
Model(name, d) == [model |-> name, fields |-> d]

model_dump(m) == m.fields

SeqMap(F(_), s) == [i \in DOMAIN s |-> F(s[i])]

DictGet(d, k, default) == IF k \in DOMAIN d THEN d[k] ELSE default

(***************************************************************************)
(* The upstream HTTP API.  A reply to one GET is an exception raised by    *)
(* the call (a requests.RequestException), or a status with a JSON body.   *)
(***************************************************************************)
ReplyExc == [exc |-> TRUE, status |-> 0, body |-> PyNone]
ReplyStatus(s) == [exc |-> FALSE, status |-> s, body |-> PyNone]
ReplyOk(b) == [exc |-> FALSE, status |-> 200, body |-> b]

\* Response.raise_for_status(): HTTPError for a 4xx or 5xx status
RaisesForStatus(reply) == reply.status >= 400 /\ reply.status < 600

SeqsUpTo(S, n) == UNION {[1..k -> S] : k \in 0..n}

RawNews ==
    {[title |-> <<"profit", "eskom", "growth">>, url |-> "u1"],
     [url |-> "u2"]}

RawMetrics == {[market_cap |-> 1]}

RawFacts == {[name |-> "n1"], [name |-> "n2"]}

RawPrices == {[close |-> 1]}

FailReplies == {ReplyExc, ReplyStatus(500)}

\* a JSON body that is no object, and an object without the wrapped array
OddBodies == {PyList(<<>>), PyDict(<<>>)}

ListReplies(key, Raw) ==
    FailReplies
    \cup {ReplyOk(b) : b \in OddBodies}
    \cup {ReplyOk(PyDict(key :> PyList(s))) : s \in SeqsUpTo(Raw, MaxLen)}

FactsReplies ==
    FailReplies
    \cup {ReplyOk(b) : b \in OddBodies}
    \cup {ReplyOk(PyDict("company_facts" :> PyDict(f))) : f \in RawFacts}

(***************************************************************************)
(* Cache keys: the f-strings of the adapter, as character sequences.       *)
(***************************************************************************)
Chars_ttm == <<"t","t","m">>
Underscore == <<"_">>
JSEColon == <<"J","S","E",":">>

\* an outcome of one adapter call: the new cache, the returned value (or the
\* exception that left the call), the GETs issued, and per cache key looked up
\* where its value came from ("cache": the cache entry; "ok": a GET answered
\* with status 200; "failed": GETs that all failed; "table": a built-in table),
\* what was returned for it and whether the call stored it
Outcome(c, ret, http, by_key) == [cache |-> c, ret |-> ret, http |-> http, by_key |-> by_key]

KeyInfo(src, ret, stored) == [src |-> src, ret |-> ret, stored |-> stored]

Request(endpoint, ticker) == [endpoint |-> endpoint, ticker |-> ticker]

\* a GET of get_jse_prices with what came back: an exception or a status
Answered(endpoint, ticker, reply) ==
    [endpoint |-> endpoint, ticker |-> ticker, exc |-> reply.exc, status |-> reply.status]

(***************************************************************************)
(* SADataAdapter._analyze_sa_sentiment.  A title is the sequence of the    *)
(* lower-cased phrases it contains; `word in text_lower` is membership.    *)
(***************************************************************************)
positive_words ==
    {"growth", "profit", "dividend", "expansion", "recovery", "rand", "zar", "jse",
     "johannesburg", "south africa"}

negative_words ==
    {"load shedding", "eskom", "corruption", "strike", "protest", "inflation",
     "recession", "debt", "default"}

analyze_sa_sentiment(text) ==
    LET positive_count == Cardinality(positive_words \cap Range(text))
        negative_count == Cardinality(negative_words \cap Range(text))
    IN  IF positive_count > negative_count THEN "positive"
        ELSE IF negative_count > positive_count THEN "negative"
        ELSE "neutral"

(***************************************************************************)
(* SADataAdapter.get_sa_financial_metrics                                  *)
(***************************************************************************)
get_sa_financial_metrics(c, ticker, end_date, period, reply) ==
    LET cache_key == <<"J","S","E","_","F","I","N","_">> \o ticker \o Underscore \o end_date
                     \o Underscore \o period
        k == <<"financial_metrics", cache_key>>
        cached_data == cache_get(c, "financial_metrics", cache_key)
        http == <<Request("fundamentals", JSEColon \o ticker)>>
        data == reply.body
        annotate(metric_data) ==
            Model("FinancialMetrics", ("currency" :> "ZAR") @@ metric_data)
        metrics == SeqMap(annotate, DictGet(data.v, "financial_metrics", PyList(<<>>)).v)
    IN  IF Truthy(cached_data)
        THEN LET ret == PyList(SeqMap(LAMBDA metric : Model("FinancialMetrics", metric),
                                      cached_data.v))
             IN  Outcome(c, ret, <<>>, k :> KeyInfo("cache", ret, FALSE))
        ELSE IF reply.exc \/ RaisesForStatus(reply)
        THEN Outcome(c, PyList(<<>>), http, k :> KeyInfo("failed", PyList(<<>>), FALSE))
        ELSE IF data.t # "dict"
        THEN Outcome(c, PyRaise("AttributeError"), http,
                     k :> KeyInfo("ok", PyRaise("AttributeError"), FALSE))
        ELSE Outcome(cache_set(c, "financial_metrics", cache_key,
                               PyList(SeqMap(model_dump, metrics))),
                     PyList(metrics), http,
                     k :> KeyInfo("ok", PyList(metrics), TRUE))

(***************************************************************************)
(* SADataAdapter.get_sa_news                                               *)
(***************************************************************************)
\* a mutant of NewsToCache: the raw items are cached, without the sentiment
NewsToCacheRaw(raw, news_items) == PyList(raw)

\* the value get_sa_news stores: [n.model_dump() for n in news_items]
NewsToCache(raw, news_items) == PyList(SeqMap(model_dump, news_items))

get_sa_news(c, ticker, end_date, start_date, reply) ==
    LET cache_key == <<"J","S","E","_","N","E","W","S","_">> \o ticker \o Underscore \o end_date
                     \o Underscore
                     \o (IF Truthy(start_date) THEN start_date.v ELSE <<"a","l","l">>)
        k == <<"news", cache_key>>
        cached_data == cache_get(c, "news", cache_key)
        http == <<Request("news", JSEColon \o ticker)>>
        data == reply.body
        raw == DictGet(data.v, "news", PyList(<<>>)).v
        annotate(news_data) ==
            Model("CompanyNews",
                  ("sentiment" :> analyze_sa_sentiment(DictGet(news_data, "title", <<>>)))
                  @@ news_data)
        news_items == SeqMap(annotate, raw)
    IN  IF Truthy(cached_data)
        THEN LET ret == PyList(SeqMap(LAMBDA news : Model("CompanyNews", news),
                                      cached_data.v))
             IN  Outcome(c, ret, <<>>, k :> KeyInfo("cache", ret, FALSE))
        ELSE IF reply.exc \/ RaisesForStatus(reply)
        THEN Outcome(c, PyList(<<>>), http, k :> KeyInfo("failed", PyList(<<>>), FALSE))
        ELSE IF data.t # "dict"
        THEN Outcome(c, PyRaise("AttributeError"), http,
                     k :> KeyInfo("ok", PyRaise("AttributeError"), FALSE))
        ELSE Outcome(cache_set(c, "news", cache_key, NewsToCache(raw, news_items)),
                     PyList(news_items), http,
                     k :> KeyInfo("ok", PyList(news_items), TRUE))

(***************************************************************************)
(* SADataAdapter.get_sa_company_facts                                      *)
(***************************************************************************)
get_sa_company_facts(c, ticker, reply) ==
    LET cache_key == <<"J","S","E","_","F","A","C","T","S","_">> \o ticker
        k == <<"company_facts", cache_key>>
        cached_data == cache_get(c, "company_facts", cache_key)
        http == <<Request("company_facts", JSEColon \o ticker)>>
        data == reply.body
        company_facts ==
            ("currency" :> "ZAR") @@ ("exchange" :> "JSE")
            @@ DictGet(data.v, "company_facts", PyDict(<<>>)).v
        facts == Model("CompanyFacts", company_facts)
    IN  IF Truthy(cached_data)
        THEN LET ret == PyObj(Model("CompanyFacts", cached_data.v))
             IN  Outcome(c, ret, <<>>, k :> KeyInfo("cache", ret, FALSE))
        ELSE IF reply.exc \/ RaisesForStatus(reply)
        THEN Outcome(c, PyNone, http, k :> KeyInfo("failed", PyNone, FALSE))
        ELSE IF data.t # "dict"
        THEN Outcome(c, PyRaise("AttributeError"), http,
                     k :> KeyInfo("ok", PyRaise("AttributeError"), FALSE))
        ELSE Outcome(cache_set(c, "company_facts", cache_key, PyDict(model_dump(facts))),
                     PyObj(facts), http,
                     k :> KeyInfo("ok", PyObj(facts), TRUE))

(***************************************************************************)
(* SADataAdapter.get_sa_market_data: the loop over the indices, one reply  *)
(* per index (used when the index misses the cache).                       *)
(***************************************************************************)
RECURSIVE market_data_loop(_, _, _, _, _, _, _)
market_data_loop(c, indices, replies, i, market_data, http, by_key) ==
    IF i > Len(indices)
    THEN Outcome(c, PyDict(market_data), http, by_key)
    ELSE LET index == indices[i]
             cache_key == <<"J","S","E","_","I","N","D","E","X","_">> \o index
             k == <<"prices", cache_key>>
             cached_data == cache_get(c, "prices", cache_key)
             reply == replies[i]
             data == reply.body
             http2 == Append(http, Request("prices", index))
             prices == DictGet(data.v, "prices", PyList(<<>>))
         IN  IF Truthy(cached_data)
             THEN market_data_loop(c, indices, replies, i + 1,
                                   (index :> cached_data) @@ market_data, http,
                                   (k :> KeyInfo("cache", cached_data, FALSE)) @@ by_key)
             ELSE IF reply.exc \/ RaisesForStatus(reply)
             THEN market_data_loop(c, indices, replies, i + 1,
                                   (index :> PyList(<<>>)) @@ market_data, http2,
                                   (k :> KeyInfo("failed", PyList(<<>>), FALSE)) @@ by_key)
             ELSE IF data.t # "dict"
             THEN Outcome(c, PyRaise("AttributeError"), http2,
                          (k :> KeyInfo("ok", PyRaise("AttributeError"), FALSE))
                          @@ by_key)
             ELSE market_data_loop(cache_set(c, "prices", cache_key, prices), indices,
                                   replies, i + 1, (index :> prices) @@ market_data, http2,
                                   (k :> KeyInfo("ok", prices, TRUE)) @@ by_key)

\* indices is None (the first three of MAJOR_INDICES) or a list
get_sa_market_data(c, indices, replies) ==
    market_data_loop(c,
                     IF indices = PyNone THEN SubSeq(sa_config.MAJOR_INDICES, 1, 3)
                     ELSE indices.v,
                     replies, 1, <<>>, <<>>, <<>>)

(***************************************************************************)
(* SADataAdapter.get_sa_economic_indicators and get_zar_fx_rates: the      *)
(* cached value, or the placeholder table.                                 *)
(***************************************************************************)
Chars_SA_ECONOMIC_INDICATORS ==
    <<"S","A","_","E","C","O","N","O","M","I","C","_","I","N","D","I","C","A","T","O","R","S">>

Chars_ZAR_FX_RATES == <<"Z","A","R","_","F","X","_","R","A","T","E","S">>

PlaceholderIndicators ==
    [SA_CPI |-> 52000, SA_REPO_RATE |-> 82500, SA_GDP_GROWTH |-> 18000,
     SA_UNEMPLOYMENT |-> 321000, SA_CURRENT_ACCOUNT |-> -21000,
     SA_BUDGET_DEFICIT |-> -49000]

PlaceholderFxRates ==
    [USDZAR |-> 184500, EURZAR |-> 201200, GBPZAR |-> 236700, JPYZAR |-> 1230,
     CNYZAR |-> 25600]

get_sa_economic_indicators(c) ==
    LET cache_key == Chars_SA_ECONOMIC_INDICATORS
        k == <<"economic_indicators", cache_key>>
        cached_data == cache_get(c, "economic_indicators", cache_key)
        indicators == PyDict(PlaceholderIndicators)
    IN  IF Truthy(cached_data)
        THEN Outcome(c, cached_data, <<>>, k :> KeyInfo("cache", cached_data, FALSE))
        ELSE Outcome(cache_set(c, "economic_indicators", cache_key, indicators),
                     indicators, <<>>, k :> KeyInfo("table", indicators, TRUE))

get_zar_fx_rates(c) ==
    LET cache_key == Chars_ZAR_FX_RATES
        k == <<"fx_rates", cache_key>>
        cached_data == cache_get(c, "fx_rates", cache_key)
        fx_rates == PyDict(PlaceholderFxRates)
    IN  IF Truthy(cached_data)
        THEN Outcome(c, cached_data, <<>>, k :> KeyInfo("cache", cached_data, FALSE))
        ELSE Outcome(cache_set(c, "fx_rates", cache_key, fx_rates),
                     fx_rates, <<>>, k :> KeyInfo("table", fx_rates, TRUE))

(***************************************************************************)
(* SADataAdapter.get_jse_prices: the loop over the ticker spellings.  The  *)
(* code after `return {"prices": []}` (lines 70-88) is unreachable.        *)
(***************************************************************************)
\* a mutant of ticker_formats: the prefixed spelling comes first
ticker_formats_prefixed_first(ticker) ==
    <<JSEColon \o ticker,
      ticker,
      ticker \o <<".","J","S","E">>,
      ticker \o <<".","J","O">>>>

ticker_formats(ticker) ==
    <<ticker,
      JSEColon \o ticker,
      ticker \o <<".","J","S","E">>,
      ticker \o <<".","J","O">>>>

RECURSIVE try_formats(_, _, _, _)
try_formats(formats, replies, i, http) ==
    IF i > Len(formats)
    THEN [ret |-> PyDict("prices" :> PyList(<<>>)), http |-> http, src |-> "failed"]
    ELSE LET http2 == Append(http, Answered("prices", formats[i], replies[i]))
         IN  IF replies[i].exc
             THEN try_formats(formats, replies, i + 1, http2)
             ELSE IF replies[i].status = 200
             THEN [ret |-> replies[i].body, http |-> http2, src |-> "ok"]
             ELSE try_formats(formats, replies, i + 1, http2)

get_jse_prices(c, ticker, start_date, end_date, replies) ==
    LET cache_key == <<"J","S","E","_">> \o ticker \o Underscore \o start_date \o Underscore
                     \o end_date
        k == <<"prices", cache_key>>
        cached_data == cache_get(c, "prices", cache_key)
        tried == try_formats(ticker_formats(ticker), replies, 1, <<>>)
    IN  IF ~is_jse_ticker(ticker)
        THEN Outcome(c, PyRaise("ValueError"), <<>>, <<>>)
        ELSE IF Truthy(cached_data)
        THEN LET ret == PyList(SeqMap(LAMBDA price : Model("Price", price), cached_data.v))
             IN  Outcome(c, ret, <<>>, k :> KeyInfo("cache", ret, FALSE))
        ELSE Outcome(c, tried.ret, tried.http, k :> KeyInfo(tried.src, tried.ret, FALSE))

(***************************************************************************)
(* Inputs of the adapter runs.                                             *)
(***************************************************************************)

\* tickers handed to the validators and to the sector lookup
TickerInputs ==
    Range(SAMarketConfig.TOP_STOCKS)
    \cup {Sym.AAPL, <<"G","O","O","G","L">>, <<"M","S","F","T">>, <<"T","S","L","A">>,
          <<>>, <<"N","P">>, <<"n","p","n">>, <<"N","P","N","X">>, <<"N","1","N">>,
          <<"J","S","E",":","N","P","N">>}

\* tickers handed to the fetch functions
FetchTickers == {Sym.NPN, Sym.AAPL}

Date_2024_01_01 == <<"2","0","2","4","-","0","1","-","0","1">>
Date_2024_03_01 == <<"2","0","2","4","-","0","3","-","0","1">>

StartDates == {PyNone, PyStr(Date_2024_01_01)}

PriceReplies == ListReplies("prices", RawPrices)

\* the replies to the GETs of get_sa_market_data
IndexReplies ==
    {ReplyExc, ReplyOk(PyList(<<>>))}
    \cup {ReplyOk(PyDict("prices" :> PyList(s))) : s \in SeqsUpTo(RawPrices, 1)}

\* n failed replies: exceptions only, statuses only, or the two in turn
FailSeqs(n) ==
    {[i \in 1..n |-> ReplyExc],
     [i \in 1..n |-> ReplyStatus(500)],
     [i \in 1..n |-> IF i % 2 = 1 THEN ReplyExc ELSE ReplyStatus(500)]}

\* the replies to the spellings get_jse_prices tries: failures up to the first
\* reply with status 200, which ends the loop (the replies after it are not used)
PriceReplySeqs ==
    UNION {{fails \o <<ok>> \o [i \in 1..(3 - n) |-> ReplyExc] :
              fails \in FailSeqs(n), ok \in PriceReplies \ FailReplies} :
           n \in 0..3}
    \cup FailSeqs(4)

IndicesInputs == {PyNone, PyList(<<SAMarketConfig.MAJOR_INDICES[1]>>)}

Scenarios == {"pure", "prices", "financial_metrics", "news", "company_facts", "tables"}

NoLast == [op |-> "none", args |-> <<>>, ret |-> PyNone, http |-> <<>>, by_key |-> <<>>,
           prior |-> {}, calls |-> <<>>]

NoState == [tickers |-> <<>>, end_date |-> <<>>, portfolio |-> PyNone,
            has_analyst_signals |-> FALSE, analyst_signals |-> <<>>]

NoneRemembered == [call |-> NoLast, cache |-> EmptyCache]

AgentsIdle ==
    /\ state = NoState
    /\ pc = "idle"
    /\ idx = 0
    /\ ticker_analyses = <<>>
    /\ llm_failed = {}
    /\ ran = {}

Init ==
    /\ sa_config = SAMarketConfig
    /\ scenario \in Scenarios
    /\ cache = EmptyCache
    /\ last = NoLast
    /\ fetched = {}
    /\ wrote = <<>>
    /\ remembered = NoneRemembered
    /\ AgentsIdle

\* tickers handed to the sector lookup in the runs that also fetch company facts
SectorInputs == IF scenario = "pure" THEN TickerInputs ELSE {Sym.NPN, Sym.SBK, Sym.AAPL}

\* a call of an adapter function that reads no cache and no upstream
Pure(op, ticker, ret) ==
    /\ last' = [NoLast EXCEPT !.op = op, !.args = <<ticker>>, !.ret = ret]
    /\ UNCHANGED <<sa_config, adapterVars, agentVars, scenario>>

\* the bookkeeping of adapter calls with joint outcome out, made by op
Record(op, args, out, calls) ==
    /\ cache' = out.cache
    /\ last' = [op |-> op, args |-> args, ret |-> out.ret, http |-> out.http,
                by_key |-> out.by_key, prior |-> fetched \cap DOMAIN out.by_key,
                calls |-> calls]
    /\ fetched' = fetched \cup {k \in DOMAIN out.by_key :
                                  /\ out.by_key[k].src \in {"cache", "ok", "table"}
                                  /\ out.by_key[k].ret.t # "raise"}
    /\ wrote' = [k \in {x \in DOMAIN out.by_key : out.by_key[x].stored} |->
                   out.by_key[k].ret] @@ wrote

\* a call of an adapter fetch function with outcome out
Fetch(op, args, out) ==
    /\ Record(op, args, out, <<>>)
    /\ UNCHANGED <<sa_config, remembered, agentVars, scenario>>

IsJseTicker ==
    \E ticker \in TickerInputs :
        /\ scenario = "pure"
        /\ Pure("is_jse_ticker", ticker, PyBool(is_jse_ticker(ticker)))
        /\ UNCHANGED remembered

ValidateSaTicker ==
    \E ticker \in TickerInputs :
        /\ scenario = "pure"
        /\ Pure("validate_sa_ticker", ticker, PyBool(validate_sa_ticker(ticker)))
        /\ UNCHANGED remembered

\* the lookup; the history variable keeps this call or the one it already holds
GetSaSectorExposure ==
    \E ticker \in SectorInputs :
        /\ scenario \in {"pure", "company_facts"}
        /\ Pure("get_sa_sector_exposure", ticker, get_sa_sector_exposure(ticker))
        /\ remembered' \in {remembered, [call |-> last', cache |-> cache]}

GetJsePrices ==
    /\ scenario = "prices"
    /\ \E ticker \in FetchTickers, replies \in PriceReplySeqs :
          /\ ~is_jse_ticker(ticker) => replies = [i \in 1..4 |-> ReplyExc]
          /\ Fetch("get_jse_prices", <<ticker, Date_2024_01_01, Date_2024_03_01>>,
                   get_jse_prices(cache, ticker, Date_2024_01_01, Date_2024_03_01, replies))

\* a reply is drawn for the indices that miss the cache only
GetSaMarketData ==
    /\ scenario = "prices"
    /\ \E indices \in IndicesInputs, replies \in [1..3 -> IndexReplies] :
          LET list == IF indices = PyNone THEN SubSeq(sa_config.MAJOR_INDICES, 1, 3)
                      ELSE indices.v
              cached(i) ==
                  Truthy(cache_get(cache, "prices",
                                   <<"J","S","E","_","I","N","D","E","X","_">> \o list[i]))
          IN  /\ \A i \in 1..3 : (i > Len(list) \/ cached(i)) => replies[i] = ReplyExc
              /\ Fetch("get_sa_market_data", <<indices>>,
                       get_sa_market_data(cache, indices, replies))

GetSaFinancialMetrics ==
    /\ scenario = "financial_metrics"
    /\ \E ticker \in FetchTickers,
          reply \in ListReplies("financial_metrics", RawMetrics) :
          Fetch("get_sa_financial_metrics", <<ticker, Date_2024_03_01, Chars_ttm>>,
                get_sa_financial_metrics(cache, ticker, Date_2024_03_01, Chars_ttm, reply))

GetSaNews ==
    /\ scenario = "news"
    /\ \E ticker \in {Sym.NPN}, start_date \in StartDates,
          reply \in ListReplies("news", RawNews) :
          Fetch("get_sa_news", <<ticker, Date_2024_03_01, start_date>>,
                get_sa_news(cache, ticker, Date_2024_03_01, start_date, reply))

GetSaCompanyFacts ==
    /\ scenario = "company_facts"
    /\ \E ticker \in FetchTickers, reply \in FactsReplies :
          Fetch("get_sa_company_facts", <<ticker>>,
                get_sa_company_facts(cache, ticker, reply))

GetSaEconomicIndicators ==
    /\ scenario = "tables"
    /\ Fetch("get_sa_economic_indicators", <<>>, get_sa_economic_indicators(cache))

GetZarFxRates ==
    /\ scenario = "tables"
    /\ Fetch("get_zar_fx_rates", <<>>, get_zar_fx_rates(cache))

Next ==
    \/ IsJseTicker
    \/ ValidateSaTicker
    \/ GetSaSectorExposure
    \/ GetJsePrices
    \/ GetSaMarketData
    \/ GetSaFinancialMetrics
    \/ GetSaNews
    \/ GetSaCompanyFacts
    \/ GetSaEconomicIndicators
    \/ GetZarFxRates

Spec == Init /\ [][Next]_vars

(***************************************************************************)
(* Claims about the validators, the sector lookup and the cache.           *)
(***************************************************************************)
AllowList == Range(SAMarketConfig.TOP_STOCKS)

ValidatorOps == {"is_jse_ticker", "validate_sa_ticker"}

FetchOps ==
    {"get_jse_prices", "get_sa_financial_metrics", "get_sa_news",
     "get_sa_company_facts", "get_sa_market_data"}

\* C2: a validator returns a boolean for every ticker, true exactly when the
\* ticker has length 3 or 4, is alphabetic and is in the allow-list, and a call
\* of a validator changes neither the configuration nor the cache.
C2_ValidatorExact ==
    /\ [](last.op \in ValidatorOps =>
            LET t == last.args[1]
            IN  /\ last.ret.t = "bool"
                /\ last.ret.v \in BOOLEAN
                /\ last.ret.v <=> /\ Len(t) \in {3, 4}
                                  /\ \A i \in 1..Len(t) : t[i] \in Letters
                                  /\ t \in AllowList)
    /\ [][last'.op \in ValidatorOps => cache' = cache /\ sa_config' = sa_config]_vars

C2_Witness ==
    /\ last.op = "validate_sa_ticker"
    /\ last.args = <<Sym.NPN>>
    /\ last.ret = PyBool(TRUE)

\* C3: for an allow-listed ticker the sector lookup returns a member of the
\* configured SECTORS, never None, Technology for NPN and Financial Services
\* for SBK, and the same sector as an earlier lookup of the same ticker,
\* whatever the cache held at either call.
C3_SectorPure ==
    (last.op = "get_sa_sector_exposure" /\ last.args[1] \in AllowList) =>
        /\ last.ret.t = "str"
        /\ last.ret.v \in Range(sa_config.SECTORS)
        /\ last.args[1] = Sym.NPN => last.ret.v = "Technology"
        /\ last.args[1] = Sym.SBK => last.ret.v = "Financial Services"
        /\ remembered.call.args = last.args => remembered.call.ret = last.ret

C3_Witness ==
    /\ last.op = "get_sa_sector_exposure"
    /\ last.args = <<Sym.NPN>>
    /\ last.ret = PyStr("Technology")
    /\ remembered.call.args = <<Sym.NPN>>
    /\ remembered.cache # cache

\* C8: once a fetch has returned data for a cache key, no later fetch with that
\* key issues an HTTP GET.
C8_NoSecondGet ==
    \A k \in DOMAIN last.by_key :
        k \in last.prior => last.by_key[k].src \notin {"ok", "failed"}

C10_NeverRaises ==
    (last.op \in FetchOps /\ last.http # <<>>) =>
        /\ last.ret.t # "raise"
        /\ \A k \in DOMAIN last.by_key :
              last.by_key[k].src = "failed" =>
                  last.by_key[k].ret =
                      (IF last.op = "get_sa_company_facts" THEN PyNone ELSE PyList(<<>>))

(***************************************************************************)
(* The agents (src/agents/sa_market_analyst.py).                           *)
(*                                                                         *)
(* AnalystSignal (src.data.models): the record of the four fields, built   *)
(* from keyword arguments.                                                 *)
(***************************************************************************)
AnalystSignal(signal, confidence, reasoning, max_position_size) ==
    Model("AnalystSignal",
          [signal |-> signal, confidence |-> confidence, reasoning |-> reasoning,
           max_position_size |-> max_position_size])

\* two adapter calls in sequence: the second ran on the cache the first left
Then(o1, o2) == Outcome(o2.cache, o2.ret, o1.http \o o2.http, o2.by_key @@ o1.by_key)

Call(fn, ticker) == [fn |-> fn, ticker |-> ticker]

(***************************************************************************)
(* The language model: llm.invoke raises, or answers with a text; the      *)
(* text is parsed by json.loads.                                           *)
(***************************************************************************)
Text_not_json == "I think you should hold."
Text_array == "[]"
Text_empty_object == "{}"
Text_buy == "{\"signal\": \"BUY\", \"confidence\": 0.9, \"reasoning\": {\"sector_outlook\": \"good\"}, \"max_position_size\": 0.05}"
Text_out_of_range == "{\"signal\": \"SELL\", \"confidence\": 1.5, \"reasoning\": {}, \"max_position_size\": 0.1}"

json_loads(content) ==
    CASE content = Text_array -> PyList(<<>>)
      [] content = Text_empty_object -> PyDict(<<>>)
      [] content = Text_buy ->
            PyDict([signal |-> PyStr("BUY"), confidence |-> PyFloat(9000),
                    reasoning |-> PyDict([sector_outlook |-> "good"]),
                    max_position_size |-> PyFloat(500)])
      [] content = Text_out_of_range ->
            PyDict([signal |-> PyStr("SELL"), confidence |-> PyFloat(15000),
                    reasoning |-> PyDict(<<>>), max_position_size |-> PyFloat(1000)])
      [] OTHER -> PyRaise("JSONDecodeError")

LLMReplies ==
    {[raises |-> TRUE, content |-> ""]}
    \cup {[raises |-> FALSE, content |-> c] :
            c \in {Text_not_json, Text_array, Text_empty_object, Text_buy,
                   Text_out_of_range}}

\* lines 121-133: the try block around llm.invoke and json.loads, and its
\* except branch; failed is the exception caught, or None
llm_signal(llm_reply) ==
    LET analysis == json_loads(llm_reply.content)
        e == IF llm_reply.raises THEN PyRaise("LLMError")
             ELSE IF analysis.t = "raise" THEN analysis
             ELSE IF analysis.t # "dict" THEN PyRaise("AttributeError")
             ELSE PyNone
    IN  IF e = PyNone
        THEN [signal |-> AnalystSignal(DictGet(analysis.v, "signal", PyNone),
                                       DictGet(analysis.v, "confidence", PyNone),
                                       DictGet(analysis.v, "reasoning", PyNone),
                                       DictGet(analysis.v, "max_position_size", PyNone)),
              failed |-> PyNone]
        ELSE [signal |-> AnalystSignal(PyStr("HOLD"), PyFloat(5000),
                                       PyDict([error |-> "Analysis failed: " \o e.v]),
                                       PyFloat(200)),
              failed |-> e]

(***************************************************************************)
(* sa_market_analyst_agent, lines 34-36: the market context.               *)
(***************************************************************************)
market_context(c, replies) ==
    LET economic_indicators == get_sa_economic_indicators(c)
        fx_rates == Then(economic_indicators, get_zar_fx_rates(economic_indicators.cache))
    IN  Then(fx_rates, get_sa_market_data(fx_rates.cache, PyNone, replies))

(***************************************************************************)
(* sa_market_analyst_agent, lines 56-133: one turn of the loop for a valid *)
(* ticker.  The adapter calls are outside the try block: an exception that *)
(* leaves one of them leaves the agent.                                    *)
(***************************************************************************)
analyze_ticker(c, ticker, end_date, facts_reply, news_reply, llm_reply) ==
    LET sector == get_sa_sector_exposure(ticker)
        company_facts == get_sa_company_facts(c, ticker, facts_reply)
        news == Then(company_facts,
                     get_sa_news(company_facts.cache, ticker, end_date, PyNone, news_reply))
        facts_call == <<Call("get_sa_company_facts", ticker)>>
        news_call == <<Call("get_sa_news", ticker)>>
        llm_call == <<Call("llm.invoke", ticker)>>
        answer == llm_signal(llm_reply)
    IN  IF company_facts.ret.t = "raise"
        THEN [out |-> company_facts, calls |-> facts_call, signal |-> PyNone,
              failed |-> PyNone]
        ELSE IF news.ret.t = "raise"
        THEN [out |-> news, calls |-> facts_call \o news_call, signal |-> PyNone,
              failed |-> PyNone]
        ELSE [out |-> [news EXCEPT !.ret = PyObj(answer.signal)],
              calls |-> facts_call \o news_call \o llm_call,
              signal |-> answer.signal, failed |-> answer.failed]

\* a mutant of update_state: the mapping is created anew on every update
update_state_fresh(s, agent, signals) ==
    [s EXCEPT !.has_analyst_signals = TRUE, !.analyst_signals = agent :> signals]

\* lines 136-139 (and 192-195, 266-269): the signals of one agent in the state
update_state(s, agent, signals) ==
    [s EXCEPT !.has_analyst_signals = TRUE,
              !.analyst_signals =
                  (agent :> signals) @@ (IF s.has_analyst_signals THEN @ ELSE <<>>)]

(***************************************************************************)
(* The format spec .2% of a ratio n/d >= 0: the ratio times 100, rounded   *)
(* to two decimals (half to even), and a percent sign.                     *)
(***************************************************************************)
DigitChars == <<"0","1","2","3","4","5","6","7","8","9">>

Digit(n) == DigitChars[n + 1]

RECURSIVE Digits(_)
Digits(n) == IF n < 10 THEN <<Digit(n)>> ELSE Append(Digits(n \div 10), Digit(n % 10))

RoundHalfEven(n, d) ==
    LET q == n \div d
        r == n % d
    IN  IF 2 * r > d \/ (2 * r = d /\ q % 2 = 1) THEN q + 1 ELSE q

\* a mutant of FormatPct2: the ratio itself with two decimals, not times 100
FormatPct2Unscaled(n, d) ==
    LET q == RoundHalfEven(n * 100, d)
    IN  Digits(q \div 100) \o <<".">> \o <<Digit((q % 100) \div 10), Digit(q % 10)>>
        \o <<"%">>

FormatPct2(n, d) ==
    LET q == RoundHalfEven(n * 10000, d)
    IN  Digits(q \div 100) \o <<".">> \o <<Digit((q % 100) \div 10), Digit(q % 10)>>
        \o <<"%">>

(***************************************************************************)
(* sa_regulatory_compliance_agent.  A portfolio has total_cash and         *)
(* positions, the sequence of the (ticker, position) items of the dict in  *)
(* insertion order.  A ratio is a fraction [n, d] with d > 0.              *)
(***************************************************************************)
regulatory_context ==
    [regulatory_body |-> sa_config.REGULATORY_BODY,
     max_position_size |-> sa_config.MAX_POSITION_SIZE,
     max_sector_exposure |-> sa_config.MAX_SECTOR_EXPOSURE,
     stop_loss_percentage |-> sa_config.STOP_LOSS_PERCENTAGE,
     max_daily_drawdown |-> sa_config.MAX_DAILY_DRAWDOWN]

Ratio(n, d) == IF d > 0 THEN [n |-> n, d |-> d] ELSE [n |-> 0, d |-> 1]

\* a mutant of Exceeds: a ratio at the limit exceeds it
ExceedsOrEquals(ratio, limit) == ratio.n * 10000 >= limit * ratio.d

\* ratio > limit, the limit in ten-thousandths
Exceeds(ratio, limit) == ratio.n * 10000 > limit * ratio.d

\* line 170 with a position counted as the whole portfolio when the total
\* portfolio value is not positive
position_size_whole_without_cash(position, total_portfolio_value) ==
    IF total_portfolio_value > 0
    THEN [n |-> position.shares * 100, d |-> total_portfolio_value]
    ELSE [n |-> 1, d |-> 1]

\* line 169-170
position_size(position, total_portfolio_value) ==
    Ratio(position.shares * 100, total_portfolio_value)

\* lines 165-173
position_issues(portfolio) ==
    LET over(p) ==
            /\ p.shares > 0
            /\ Exceeds(position_size(p, portfolio.total_cash),
                       regulatory_context.max_position_size)
        issue(p) ==
            LET size == position_size(p, portfolio.total_cash)
            IN  [ticker |-> p.ticker, issue |-> "Position size exceeds 5% limit",
                 current_size |-> FormatPct2(size.n, size.d),
                 max_allowed |-> FormatPct2(regulatory_context.max_position_size, 10000)]
    IN  SeqMap(issue, SelectSeq(portfolio.positions, over))

\* lines 176-181: the exposures dict, as its keys in insertion order and the sums
RECURSIVE sector_exposures(_, _, _, _)
sector_exposures(positions, i, keys, sums) ==
    IF i > Len(positions)
    THEN [keys |-> keys, sums |-> sums]
    ELSE LET position == positions[i]
             sector == get_sa_sector_exposure(position.ticker)
         IN  IF position.shares > 0 /\ Truthy(sector)
             THEN sector_exposures(positions, i + 1,
                                   IF sector.v \in DOMAIN sums THEN keys
                                   ELSE Append(keys, sector.v),
                                   (sector.v :> DictGet(sums, sector.v, 0) + position.shares)
                                   @@ sums)
             ELSE sector_exposures(positions, i + 1, keys, sums)

RECURSIVE sum_values(_, _)
sum_values(keys, sums) ==
    IF keys = <<>> THEN 0 ELSE sums[Head(keys)] + sum_values(Tail(keys), sums)

\* lines 183-186 with the exposure of a sector taken as its share of the total
\* portfolio value instead of its share of the shares held
sector_issues_of_portfolio_value(portfolio) ==
    LET exposures == sector_exposures(portfolio.positions, 1, <<>>, <<>>)
        sector_exposure_ratio(sector) ==
            Ratio(exposures.sums[sector], portfolio.total_cash)
        over(sector) ==
            Exceeds(sector_exposure_ratio(sector), regulatory_context.max_sector_exposure)
        issue(sector) ==
            LET ratio == sector_exposure_ratio(sector)
            IN  [sector |-> sector, issue |-> "Sector exposure exceeds 30% limit",
                 current_exposure |-> FormatPct2(ratio.n, ratio.d),
                 max_allowed |-> FormatPct2(regulatory_context.max_sector_exposure, 10000)]
    IN  SeqMap(issue, SelectSeq(exposures.keys, over))

\* lines 183-186
sector_issues(portfolio) ==
    LET exposures == sector_exposures(portfolio.positions, 1, <<>>, <<>>)
        total == sum_values(exposures.keys, exposures.sums)
        sector_exposure_ratio(sector) == Ratio(exposures.sums[sector], total)
        over(sector) ==
            Exceeds(sector_exposure_ratio(sector), regulatory_context.max_sector_exposure)
        issue(sector) ==
            LET ratio == sector_exposure_ratio(sector)
            IN  [sector |-> sector, issue |-> "Sector exposure exceeds 30% limit",
                 current_exposure |-> FormatPct2(ratio.n, ratio.d),
                 max_allowed |-> FormatPct2(regulatory_context.max_sector_exposure, 10000)]
    IN  SeqMap(issue, SelectSeq(exposures.keys, over))

\* the signal of line 189 with the two branches of its conditionals exchanged
compliance_signal_branches_swapped(portfolio) ==
    LET compliance_issues == position_issues(portfolio) \o sector_issues(portfolio)
    IN  AnalystSignal(PyStr(IF compliance_issues # <<>> THEN "COMPLIANT"
                            ELSE "NON_COMPLIANT"),
                      PyFloat(IF compliance_issues # <<>> THEN 10000 ELSE 8000),
                      PyDict([regulatory_body |-> regulatory_context.regulatory_body,
                              compliance_issues |-> compliance_issues,
                              regulatory_limits |-> regulatory_context]),
                      PyFloat(regulatory_context.max_position_size))

\* line 189
compliance_signal(portfolio) ==
    LET compliance_issues == position_issues(portfolio) \o sector_issues(portfolio)
    IN  AnalystSignal(PyStr(IF compliance_issues = <<>> THEN "COMPLIANT"
                            ELSE "NON_COMPLIANT"),
                      PyFloat(IF compliance_issues = <<>> THEN 10000 ELSE 8000),
                      PyDict([regulatory_body |-> regulatory_context.regulatory_body,
                              compliance_issues |-> compliance_issues,
                              regulatory_limits |-> regulatory_context]),
                      PyFloat(regulatory_context.max_position_size))

(***************************************************************************)
(* sa_currency_risk_agent.                                                 *)
(***************************************************************************)
currency_sensitive_stocks ==
    (Sym.BHP :> "high") @@ (Sym.AGL :> "high") @@ (Sym.SOL :> "high") @@ (Sym.MTN :> "medium")
    @@ (Sym.VOD :> "medium") @@ (Sym.NPN :> "high") @@ (Sym.SHP :> "low") @@ (Sym.WHL :> "low")
    @@ (Sym.TBS :> "low") @@ (Sym.BID :> "low") @@ (Sym.TFG :> "low") @@ (Sym.MRP :> "low")
    @@ (Sym.CLS :> "low") @@ (Sym.SBK :> "medium") @@ (Sym.FSR :> "medium") @@ (Sym.NED :> "medium")
    @@ (Sym.ABG :> "medium")

\* a mutant of currency_context: the indicators are not read
currency_context_without_indicators(fx_rates, economic_indicators) ==
    [base_currency |-> "ZAR", fx_rates |-> fx_rates, inflation |-> 0, repo_rate |-> 0,
     current_account |-> 0, budget_deficit |-> 0]

\* line 217
currency_context(fx_rates, economic_indicators) ==
    [base_currency |-> "ZAR", fx_rates |-> fx_rates,
     inflation |-> DictGet(economic_indicators.v, "SA_CPI", 0),
     repo_rate |-> DictGet(economic_indicators.v, "SA_REPO_RATE", 0),
     current_account |-> DictGet(economic_indicators.v, "SA_CURRENT_ACCOUNT", 0),
     budget_deficit |-> DictGet(economic_indicators.v, "SA_BUDGET_DEFICIT", 0)]

\* a mutant of currency_signal: REDUCE already at an inflation of 6.0
currency_signal_at_threshold(ticker, context) ==
    LET sensitivity == DictGet(currency_sensitive_stocks, ticker, "low")
        signal == IF sensitivity = "high"
                  THEN (IF context.inflation >= 60000 THEN "REDUCE" ELSE "HOLD")
                  ELSE IF sensitivity = "medium" THEN "HOLD" ELSE "BUY"
        confidence == IF sensitivity = "high" THEN 8000
                      ELSE IF sensitivity = "medium" THEN 6000 ELSE 7000
    IN  AnalystSignal(PyStr(signal), PyFloat(confidence),
                      PyDict([currency_sensitivity |-> sensitivity,
                              inflation_impact |-> context.inflation,
                              interest_rate_impact |-> context.repo_rate]),
                      PyFloat(IF sensitivity = "high" THEN 300 ELSE 500))

\* lines 247-263 with a ticker absent from the sensitivity table taken as medium
currency_signal_default_medium(ticker, context) ==
    LET sensitivity == DictGet(currency_sensitive_stocks, ticker, "medium")
        signal == IF sensitivity = "high"
                  THEN (IF context.inflation > 60000 THEN "REDUCE" ELSE "HOLD")
                  ELSE IF sensitivity = "medium" THEN "HOLD" ELSE "BUY"
        confidence == IF sensitivity = "high" THEN 8000
                      ELSE IF sensitivity = "medium" THEN 6000 ELSE 7000
    IN  AnalystSignal(PyStr(signal), PyFloat(confidence),
                      PyDict([currency_sensitivity |-> sensitivity,
                              inflation_impact |-> context.inflation,
                              interest_rate_impact |-> context.repo_rate]),
                      PyFloat(IF sensitivity = "high" THEN 300 ELSE 500))

\* lines 247-263
currency_signal(ticker, context) ==
    LET sensitivity == DictGet(currency_sensitive_stocks, ticker, "low")
        currency_analysis ==
            [ticker |-> ticker, currency_sensitivity |-> sensitivity,
             zar_volatility_impact |-> IF sensitivity = "high" THEN "high" ELSE "low",
             inflation_impact |-> IF sensitivity = "high" THEN "high" ELSE "medium",
             interest_rate_impact |->
                 IF ticker \in {Sym.SBK, Sym.FSR, Sym.NED, Sym.ABG} THEN "high" ELSE "low",
             fx_context |-> context]
        signal == IF sensitivity = "high"
                  THEN (IF context.inflation > 60000 THEN "REDUCE" ELSE "HOLD")
                  ELSE IF sensitivity = "medium" THEN "HOLD" ELSE "BUY"
        confidence == IF sensitivity = "high" THEN 8000
                      ELSE IF sensitivity = "medium" THEN 6000 ELSE 7000
    IN  AnalystSignal(PyStr(signal), PyFloat(confidence),
                      PyDict([currency_sensitivity |-> sensitivity,
                              zar_analysis |-> currency_analysis,
                              inflation_impact |-> context.inflation,
                              interest_rate_impact |-> context.repo_rate]),
                      PyFloat(IF sensitivity = "high" THEN 300 ELSE 500))

\* lines 222-263: the loop over the tickers
RECURSIVE currency_loop(_, _, _, _)
currency_loop(tickers, i, context, analyses) ==
    IF i > Len(tickers)
    THEN analyses
    ELSE IF ~validate_sa_ticker(tickers[i])
    THEN currency_loop(tickers, i + 1, context, analyses)
    ELSE currency_loop(tickers, i + 1, context,
                       (tickers[i] :> currency_signal(tickers[i], context)) @@ analyses)

(***************************************************************************)
(* The entry points (sa_main.py, sa_backtester.py): the ticker argument is *)
(* split at the commas, each part stripped and upper-cased, and the parts  *)
(* the adapter validates are handed to the runner.                         *)
(***************************************************************************)
LowerToUpper ==
    [a |-> "A", b |-> "B", c |-> "C", d |-> "D", e |-> "E", f |-> "F", g |-> "G",
     h |-> "H", i |-> "I", j |-> "J", k |-> "K", l |-> "L", m |-> "M", n |-> "N",
     o |-> "O", p |-> "P", q |-> "Q", r |-> "R", s |-> "S", t |-> "T", u |-> "U",
     v |-> "V", w |-> "W", x |-> "X", y |-> "Y", z |-> "Z"]

upper(str) ==
    [i \in DOMAIN str |-> IF str[i] \in DOMAIN LowerToUpper THEN LowerToUpper[str[i]]
                          ELSE str[i]]

RECURSIVE strip(_)
strip(str) ==
    IF str # <<>> /\ Head(str) = " " THEN strip(Tail(str))
    ELSE IF str # <<>> /\ str[Len(str)] = " " THEN strip(SubSeq(str, 1, Len(str) - 1))
    ELSE str

RECURSIVE split(_, _)
split(str, sep) ==
    IF \E i \in DOMAIN str : str[i] = sep
    THEN LET i == CHOOSE i \in DOMAIN str :
                      str[i] = sep /\ \A j \in 1..(i - 1) : str[j] # sep
         IN  <<SubSeq(str, 1, i - 1)>> \o split(SubSeq(str, i + 1, Len(str)), sep)
    ELSE <<str>>

\* lines 63-75 of both entry points
parse_tickers(ticker_arg) == SeqMap(LAMBDA t : upper(strip(t)), split(ticker_arg, ","))

\* a mutant of valid_tickers: no ticker is dropped
valid_tickers_unfiltered(tickers) == tickers

valid_tickers(tickers) == SelectSeq(tickers, validate_sa_ticker)

SystemExit(code) == [t |-> "exit", v |-> code]

Returned == [t |-> "state"]

EntryPoints == {"sa_main", "sa_backtester"}

\* the flags of an entry point, in the order main() adds them to the parser
\* (sa_main.py lines 45-61, sa_backtester.py lines 45-61)
FlagsOf(entry) ==
    IF entry = "sa_main"
    THEN <<"--ticker", "--start-date", "--end-date", "--backtest", "--ollama",
           "--show-reasoning", "--model-name", "--model-provider", "--sa-only">>
    ELSE <<"--ticker", "--start-date", "--end-date", "--ollama", "--show-reasoning",
           "--model-name", "--model-provider", "--sa-only", "--initial-capital">>

\* the flags the parser knows while the default of `flag` is evaluated: those
\* added before it
KnownAt(entry, flag) ==
    LET i == CHOOSE i \in DOMAIN FlagsOf(entry) : FlagsOf(entry)[i] = flag
    IN  Range(SubSeq(FlagsOf(entry), 1, i - 1))

\* ArgumentParser.parse_args(): exit status 2 on a flag the parser does not know
parse_args(known, flags) == IF flags \subseteq known THEN PyNone ELSE SystemExit(2)

\* the three parse_args() calls of main(): in the default of --model-name (line
\* 57), in the default of --model-provider (line 59), and at line 63
parse_command_line(entry, flags) ==
    LET early1 == parse_args(KnownAt(entry, "--model-name"), flags)
        early2 == parse_args(KnownAt(entry, "--model-provider"), flags)
    IN  IF early1 # PyNone THEN early1
        ELSE IF early2 # PyNone THEN early2
        ELSE parse_args(Range(FlagsOf(entry)), flags)

\* args.model_name (line 57) and args.model_provider (line 59): the value given
\* on the command line, else the default the --ollama flag selects
model_name(flags) ==
    IF "--model-name" \in flags THEN "given-model"
    ELSE IF "--ollama" \notin flags THEN "gpt-4o-mini" ELSE "llama3.1:8b"

model_provider(flags) ==
    IF "--model-provider" \in flags THEN "GivenProvider"
    ELSE IF "--ollama" \notin flags THEN "OpenAI" ELSE "Ollama"

\* the runner main() hands over to (sa_main.py lines 106-113, sa_backtester.py
\* lines 108-110)
runner_of(entry, flags) ==
    IF entry = "sa_main" /\ "--backtest" \notin flags THEN "run_hedge_fund"
    ELSE "Backtester.run_backtest"

\* the call of the runner with the keyword arguments that take part in a claim
RunnerCall(entry, flags, tickers) ==
    [fn |-> runner_of(entry, flags), ticker |-> tickers,
     model_name |-> model_name(flags), model_provider |-> model_provider(flags)]

\* the portfolio main() builds is a dict (line 96)
CliPortfolio == PyDict([total_cash |-> 1000000, positions |-> <<>>])

(***************************************************************************)
(* Inputs of the agent runs.                                               *)
(***************************************************************************)
AgentTickers == {Sym.NPN, Sym.MTN, Sym.AAPL}

RECURSIVE join(_, _)
join(sep, strs) ==
    IF strs = <<>> THEN <<>>
    ELSE IF Len(strs) = 1 THEN strs[1]
    ELSE strs[1] \o <<sep>> \o join(sep, Tail(strs))

\* the parts of a --ticker argument
ArgParts == {<<"n","p","n">>, <<" ","M","T","N">>, Sym.AAPL}

TickerArgs == {join(",", parts) : parts \in SeqsUpTo(ArgParts, MaxTickers)}

\* the replies to the three index GETs of the market context
ContextReplies ==
    {[i \in 1..3 |-> IF i = 1 THEN ReplyExc
                     ELSE ReplyOk(PyDict("prices" :> PyList(<<[close |-> 1]>>)))],
     [i \in 1..3 |-> IF i = 2 THEN ReplyOk(PyList(<<>>)) ELSE ReplyExc]}

AgentFactsReplies ==
    {ReplyExc, ReplyOk(PyList(<<>>)),
     ReplyOk(PyDict("company_facts" :> PyDict([name |-> "n1"])))}

AgentNewsReplies ==
    {ReplyExc, ReplyOk(PyList(<<>>)),
     ReplyOk(PyDict("news" :> PyList(<<[url |-> "u2"]>>)))}

EmptyPortfolio == [total_cash |-> 1000000, positions |-> <<>>]

\* the runs of the three agents on one state: started by an entry point, or on
\* a state handed to the agents directly
PipelineScenarios == EntryPoints \cup {"agents"}

AgentState(tickers, portfolio) ==
    [tickers |-> tickers, end_date |-> Date_2024_03_01, portfolio |-> portfolio,
     has_analyst_signals |-> FALSE, analyst_signals |-> <<>>]

InitAnalyst ==
    /\ sa_config = SAMarketConfig
    /\ scenario \in {"cli", "runner"}
    /\ cache = EmptyCache
    /\ last = NoLast
    /\ fetched = {}
    /\ wrote = <<>>
    /\ remembered = NoneRemembered
    /\ pc = IF scenario = "cli" THEN "cli" ELSE "idle"
    /\ state \in IF scenario = "cli" THEN {NoState}
                 ELSE {AgentState(tickers, EmptyPortfolio) :
                         tickers \in SeqsUpTo(AgentTickers, MaxTickers)}
    /\ idx = 0
    /\ ticker_analyses = <<>>
    /\ llm_failed = {}
    /\ ran = {}

\* the flags given besides --ticker (the date flags and --show-reasoning are
\* known to the parser from the start and take no part in a decision)
FlagInputs ==
    SUBSET {"--backtest", "--ollama", "--model-name", "--model-provider", "--sa-only",
            "--initial-capital"}

\* main() of an entry point up to the hand-over to the runner: the command
\* line is parsed, the tickers are validated, and the runner is called with the
\* valid tickers and the portfolio
Main ==
    \E entry \in EntryPoints, ticker_arg \in TickerArgs, flags \in FlagInputs :
        LET args == parse_command_line(entry, flags \cup {"--ticker"})
            tickers == parse_tickers(ticker_arg)
            exits(code) ==
                /\ pc' = "exit"
                /\ last' = [NoLast EXCEPT !.op = entry, !.args = <<ticker_arg, flags>>,
                                          !.ret = SystemExit(code)]
                /\ UNCHANGED state
        IN  /\ pc = "cli"
            /\ scenario \in EntryPoints => entry = scenario
            /\ IF args # PyNone
               THEN exits(args.v)
               ELSE IF valid_tickers(tickers) = <<>>
               THEN exits(1)
               ELSE /\ pc' = "idle"
                    /\ last' = [NoLast EXCEPT
                                  !.op = entry, !.args = <<ticker_arg, flags>>,
                                  !.ret = Returned,
                                  !.calls = <<RunnerCall(entry, flags,
                                                         valid_tickers(tickers))>>]
                    /\ state' = AgentState(valid_tickers(tickers), CliPortfolio)
            /\ UNCHANGED <<sa_config, adapterVars, remembered, idx, ticker_analyses,
                           llm_failed, ran, scenario>>

\* sa_market_analyst_agent up to the loop
AnalystStart ==
    \E replies \in ContextReplies :
        LET out == market_context(cache, replies)
        IN  /\ pc = "idle"
            /\ "sa_market_analyst" \notin ran
            /\ Record("sa_market_analyst_agent", <<>>, out,
                      <<Call("get_model", <<>>),
                        Call("get_sa_economic_indicators", <<>>),
                        Call("get_zar_fx_rates", <<>>),
                        Call("get_sa_market_data", <<>>)>>)
            /\ pc' = IF out.ret.t = "raise" THEN "raised" ELSE "loop"
            /\ idx' = 1
            /\ ticker_analyses' = <<>>
            /\ llm_failed' = {}
            /\ UNCHANGED <<sa_config, remembered, state, ran, scenario>>

\* one turn of the loop over state["data"]["tickers"]
AnalystIter ==
    \E facts_reply \in AgentFactsReplies, news_reply \in AgentNewsReplies,
       llm_reply \in LLMReplies :
        LET ticker == state.tickers[idx]
            turn == analyze_ticker(cache, ticker, state.end_date, facts_reply,
                                   news_reply, llm_reply)
        IN  /\ pc = "loop"
            /\ idx <= Len(state.tickers)
            /\ scenario \in PipelineScenarios \cup {"cli"} =>
                  facts_reply = ReplyExc /\ news_reply = ReplyExc
            \* a reply that no request will consume is not varied
            /\ ~validate_sa_ticker(ticker) =>
                  /\ facts_reply = ReplyExc /\ news_reply = ReplyExc
                  /\ llm_reply = [raises |-> TRUE, content |-> ""]
            /\ facts_reply = ReplyOk(PyList(<<>>)) => news_reply = ReplyExc
            /\ IF ~validate_sa_ticker(ticker)
               THEN /\ last' = [NoLast EXCEPT !.op = "sa_market_analyst_agent",
                                              !.args = <<ticker>>]
                    /\ idx' = idx + 1
                    /\ UNCHANGED <<adapterVars, pc, ticker_analyses, llm_failed>>
               ELSE /\ Record("sa_market_analyst_agent", <<ticker>>, turn.out, turn.calls)
                    /\ IF turn.out.ret.t = "raise"
                       THEN /\ pc' = "raised"
                            /\ UNCHANGED <<idx, ticker_analyses, llm_failed>>
                       ELSE /\ pc' = "loop"
                            /\ idx' = idx + 1
                            /\ ticker_analyses' = (ticker :> turn.signal) @@ ticker_analyses
                            /\ llm_failed' = IF turn.failed = PyNone
                                             THEN llm_failed \ {ticker}
                                             ELSE llm_failed \cup {ticker}
            /\ UNCHANGED <<sa_config, remembered, state, ran, scenario>>

\* lines 135-141
AnalystFinish ==
    /\ pc = "loop"
    /\ idx > Len(state.tickers)
    /\ state' = update_state(state, "sa_market_analyst", ticker_analyses)
    /\ pc' = "idle"
    /\ ran' = ran \cup {"sa_market_analyst"}
    /\ last' = [NoLast EXCEPT !.op = "sa_market_analyst_agent", !.ret = Returned]
    /\ UNCHANGED <<sa_config, adapterVars, remembered, idx, ticker_analyses, llm_failed,
                   scenario>>

NextAnalyst ==
    \/ Main
    \/ AnalystStart
    \/ AnalystIter
    \/ AnalystFinish

SpecAnalyst == InitAnalyst /\ [][NextAnalyst]_vars

(***************************************************************************)
(* Claims about the market analyst and the entry points.                   *)
(***************************************************************************)
TickerFetchFns ==
    {"get_jse_prices", "get_sa_financial_metrics", "get_sa_news", "get_sa_company_facts"}

Runners == {"run_hedge_fund", "Backtester.run_backtest"}

\* C1: both validators return false for every ticker outside the allow-list,
\* and every call of a per-ticker fetch function made by the analyst, and every
\* GET it causes, is for an allow-listed ticker; an entry point calls no fetch
\* function and hands only allow-listed tickers to the runner.
C1_NoFetchForUnlisted ==
    /\ \A t \in TickerInputs \ AllowList : ~is_jse_ticker(t) /\ ~validate_sa_ticker(t)
    /\ \A i \in DOMAIN last.calls :
          last.calls[i].fn \in TickerFetchFns => last.calls[i].ticker \in AllowList
    /\ \A i \in DOMAIN last.http :
          last.http[i].endpoint \in {"news", "company_facts", "fundamentals"} =>
              \E t \in AllowList : last.http[i].ticker = JSEColon \o t
    /\ last.op \in EntryPoints =>
          /\ \A i \in DOMAIN last.calls :
                /\ last.calls[i].fn \in Runners
                /\ Range(last.calls[i].ticker) \subseteq AllowList
          /\ last.http = <<>>
          /\ Range(state.tickers) \subseteq AllowList

C1_Witness ==
    /\ last.op = "sa_market_analyst_agent"
    /\ last.args = <<Sym.AAPL>>
    /\ last.calls = <<>>
    /\ pc = "loop"
    /\ Sym.NPN \in DOMAIN ticker_analyses

\* C4: a ticker whose LLM call or reply parsing failed has the signal HOLD with
\* confidence 0.5 and an error note, and the agent run in which that happened
\* does not end in an exception.
C4_DegradeNeverThrow ==
    /\ \A t \in llm_failed :
          /\ t \in DOMAIN ticker_analyses
          /\ ticker_analyses[t].fields.signal = PyStr("HOLD")
          /\ ticker_analyses[t].fields.confidence = PyFloat(5000)
          /\ "error" \in DOMAIN ticker_analyses[t].fields.reasoning.v
    /\ llm_failed # {} => pc # "raised"

(***************************************************************************)
(* Runs of the compliance agent over a family of portfolios.               *)
(***************************************************************************)
PortfolioTickers == <<Sym.NPN, Sym.SBK, Sym.MTN, Sym.BHP, Sym.AAPL>>

CashInputs == {-1000, 0, 2000, 3000}

RECURSIVE SetToSeq(_)
SetToSeq(S) ==
    IF S = {} THEN <<>>
    ELSE LET m == CHOOSE m \in S : \A x \in S : m <= x
         IN  <<m>> \o SetToSeq(S \ {m})

PositionsOf(held, shares) ==
    SeqMap(LAMBDA i : [ticker |-> PortfolioTickers[i], shares |-> shares[i]],
           SetToSeq(held))

\* every choice of the tickers held and of their shares (-2: not held)
Portfolios ==
    {[total_cash |-> cash,
      positions |-> PositionsOf({i \in DOMAIN shares : shares[i] >= -1}, shares)] :
        shares \in [1..Len(PortfolioTickers) -> -2..MaxShares], cash \in CashInputs}

InitCompliance ==
    /\ sa_config = SAMarketConfig
    /\ scenario = "compliance"
    /\ cache = EmptyCache
    /\ last = NoLast
    /\ fetched = {}
    /\ wrote = <<>>
    /\ remembered = NoneRemembered
    /\ pc = "idle"
    /\ state \in {AgentState(<<>>, portfolio) : portfolio \in Portfolios}
    /\ idx = 0
    /\ ticker_analyses = <<>>
    /\ llm_failed = {}
    /\ ran = {}

\* sa_regulatory_compliance_agent: a client of the language model is built
\* (line 155) and never used; `portfolio.total_cash` (line 165) is an attribute
\* access, which a dict does not answer
ComplianceAgent ==
    /\ pc = "idle"
    /\ "sa_regulatory_compliance" \notin ran
    /\ IF state.portfolio \in {PyNone, CliPortfolio}
       THEN /\ pc' = "raised"
            /\ last' = [NoLast EXCEPT !.op = "sa_regulatory_compliance_agent",
                                      !.ret = PyRaise("AttributeError"),
                                      !.calls = <<Call("get_model", <<>>)>>]
            /\ UNCHANGED <<state, ran>>
       ELSE /\ state' = update_state(state, "sa_regulatory_compliance",
                                     "PORTFOLIO" :> compliance_signal(state.portfolio))
            /\ last' = [NoLast EXCEPT !.op = "sa_regulatory_compliance_agent",
                                      !.ret = Returned,
                                      !.calls = <<Call("get_model", <<>>)>>]
            /\ ran' = ran \cup {"sa_regulatory_compliance"}
            /\ UNCHANGED pc
    /\ UNCHANGED <<sa_config, adapterVars, remembered, idx, ticker_analyses,
                   llm_failed, scenario>>

NextCompliance == ComplianceAgent

SpecCompliance == InitCompliance /\ [][NextCompliance]_vars

(***************************************************************************)
(* Runs of the currency agent over ticker lists and over values of the     *)
(* economic indicators left in the shared cache.                           *)
(***************************************************************************)
CurrencyTickers == {Sym.NPN, Sym.BHP, Sym.MTN, Sym.SHP, Sym.IMP, Sym.AAPL}

CachedIndicators ==
    {PyDict([PlaceholderIndicators EXCEPT !.SA_CPI = cpi]) :
        cpi \in {59900, 60000, 60100, 120000}}
    \cup {PyDict([SA_REPO_RATE |-> 82500]), PyDict(<<>>)}

IndicatorCaches ==
    {EmptyCache}
    \cup {cache_set(EmptyCache, "economic_indicators", Chars_SA_ECONOMIC_INDICATORS, d) :
            d \in CachedIndicators}

InitCurrency ==
    /\ sa_config = SAMarketConfig
    /\ scenario = "currency"
    /\ cache \in IndicatorCaches
    /\ last = NoLast
    /\ fetched = {}
    /\ wrote = <<>>
    /\ remembered = NoneRemembered
    /\ pc = "idle"
    /\ state \in {AgentState(tickers, EmptyPortfolio) :
                    tickers \in SeqsUpTo(CurrencyTickers, MaxTickers)}
    /\ idx = 0
    /\ ticker_analyses = <<>>
    /\ llm_failed = {}
    /\ ran = {}

\* sa_currency_risk_agent
CurrencyAgent ==
    LET fx_rates == get_zar_fx_rates(cache)
        economic_indicators == Then(fx_rates, get_sa_economic_indicators(fx_rates.cache))
        context == currency_context(fx_rates.ret, economic_indicators.ret)
        analyses == currency_loop(state.tickers, 1, context, <<>>)
    IN  /\ pc = "idle"
        /\ "sa_currency_risk" \notin ran
        /\ Record("sa_currency_risk_agent", <<>>, economic_indicators,
                  <<Call("get_model", <<>>),
                    Call("get_zar_fx_rates", <<>>),
                    Call("get_sa_economic_indicators", <<>>)>>)
        /\ state' = update_state(state, "sa_currency_risk", analyses)
        /\ ran' = ran \cup {"sa_currency_risk"}
        /\ UNCHANGED <<sa_config, remembered, pc, idx, ticker_analyses, llm_failed,
                       scenario>>

NextCurrency == CurrencyAgent

SpecCurrency == InitCurrency /\ [][NextCurrency]_vars

(***************************************************************************)
(* Claims about the compliance agent and the currency agent.               *)
(***************************************************************************)
DigitValue(ch) == CHOOSE n \in 0..9 : DigitChars[n + 1] = ch

RECURSIVE NatOf(_)
NatOf(ds) ==
    IF ds = <<>> THEN 0
    ELSE NatOf(SubSeq(ds, 1, Len(ds) - 1)) * 10 + DigitValue(ds[Len(ds)])

\* str reads as digits, a point, two digits and a percent sign
IsPctString(str) ==
    /\ Len(str) >= 5
    /\ str[Len(str)] = "%"
    /\ str[Len(str) - 3] = "."
    /\ \A i \in (1..(Len(str) - 4)) \cup {Len(str) - 2, Len(str) - 1} :
          str[i] \in Range(DigitChars)
    /\ Len(str) > 5 => str[1] # "0"

\* the number of hundredths of a percent that a percentage string reads
PctHundredths(str) ==
    NatOf(SubSeq(str, 1, Len(str) - 4)) * 100 + NatOf(SubSeq(str, Len(str) - 2, Len(str) - 1))

ComplianceRan == "sa_regulatory_compliance" \in ran

ComplianceSignal == state.analyst_signals["sa_regulatory_compliance"]["PORTFOLIO"].fields

ComplianceIssues == ComplianceSignal.reasoning.v.compliance_issues

\* C5: after the compliance agent ran on a portfolio of one position of
\* shares > 0 whose value, shares * 100, is more than 5% of a positive total
\* cash, the issues list has an entry with that ticker, whose current_size is a
\* percentage string within half a hundredth of a percent of the ratio and whose
\* max_allowed is "5.00%", the configured limit.
C5_PositionIssue ==
    LET positions == state.portfolio.positions
        cash == state.portfolio.total_cash
    IN  (/\ ComplianceRan
         /\ Len(positions) = 1
         /\ positions[1].shares > 0
         /\ cash > 0
         /\ positions[1].shares * 100 * 100 > 5 * cash) =>
            \E i \in DOMAIN ComplianceIssues :
                LET issue == ComplianceIssues[i]
                IN  /\ "ticker" \in DOMAIN issue
                    /\ issue.ticker = positions[1].ticker
                    /\ IsPctString(issue.current_size)
                    /\ LET diff == PctHundredths(issue.current_size) * cash
                                   - positions[1].shares * 100 * 10000
                       IN  2 * diff <= cash /\ 2 * diff >= -cash
                    /\ issue.max_allowed = <<"5", ".", "0", "0", "%">>
                    /\ PctHundredths(issue.max_allowed) = sa_config.MAX_POSITION_SIZE

C5_Witness ==
    /\ ComplianceRan
    /\ state.portfolio = [total_cash |-> 3000,
                          positions |-> <<[ticker |-> Sym.NPN, shares |-> 2]>>]
    /\ \E i \in DOMAIN ComplianceIssues :
          /\ "ticker" \in DOMAIN ComplianceIssues[i]
          /\ ComplianceIssues[i].ticker = Sym.NPN
          /\ ComplianceIssues[i].current_size = <<"6", ".", "6", "7", "%">>

\* no held position is worth more than 5% of the total cash
PositionsWithinLimit ==
    \A i \in DOMAIN state.portfolio.positions :
        LET position == state.portfolio.positions[i]
        IN  (position.shares > 0 /\ state.portfolio.total_cash > 0) =>
                position.shares * 100 * 100 <= 5 * state.portfolio.total_cash

\* the shares held (shares > 0) in tickers the sector table maps to sector
RECURSIVE SharesIn(_, _)
SharesIn(sectors, positions) ==
    IF positions = <<>> THEN 0
    ELSE (IF /\ Head(positions).shares > 0
             /\ Head(positions).ticker \in DOMAIN sector_mapping
             /\ sector_mapping[Head(positions).ticker] \in sectors
          THEN Head(positions).shares ELSE 0)
         + SharesIn(sectors, Tail(positions))

AllSectors == {sector_mapping[t] : t \in DOMAIN sector_mapping}

\* no sector holds more than 30% of the shares held in sector-mapped tickers
SectorsWithinLimit ==
    \A sector \in AllSectors :
        SharesIn({sector}, state.portfolio.positions) * 10
            <= 3 * SharesIn(AllSectors, state.portfolio.positions)

\* C6 as stated: every portfolio whose positions are all within the
\* position-size limit yields COMPLIANT with confidence 1.0.
C6_PositionsOnly ==
    (ComplianceRan /\ PositionsWithinLimit) =>
        /\ ComplianceSignal.signal = PyStr("COMPLIANT")
        /\ ComplianceSignal.confidence = PyFloat(10000)

\* C6 amended: every portfolio in which no position exceeds the position-size
\* limit and no sector holds more than 30% of the shares held in sector-mapped
\* tickers yields COMPLIANT with confidence 1.0.
C6_PositionsAndSectors ==
    (ComplianceRan /\ PositionsWithinLimit /\ SectorsWithinLimit) =>
        /\ ComplianceSignal.signal = PyStr("COMPLIANT")
        /\ ComplianceSignal.confidence = PyFloat(10000)

C6_Witness ==
    /\ ComplianceRan
    /\ state.portfolio =
           [total_cash |-> 2000,
            positions |-> <<[ticker |-> Sym.NPN, shares |-> 1], [ticker |-> Sym.SBK, shares |-> 1],
                            [ticker |-> Sym.MTN, shares |-> 1], [ticker |-> Sym.BHP, shares |-> 1]>>]
    /\ ComplianceSignal.signal = PyStr("COMPLIANT")
    /\ ComplianceSignal.confidence = PyFloat(10000)

CurrencyRan == "sa_currency_risk" \in ran

CurrencySignals == state.analyst_signals["sa_currency_risk"]

\* the SA_CPI value of the indicators the agent read (0 when there is none)
InflationRead ==
    LET indicators == last.by_key[<<"economic_indicators", Chars_SA_ECONOMIC_INDICATORS>>].ret.v
    IN  IF "SA_CPI" \in DOMAIN indicators THEN indicators.SA_CPI ELSE 0

HighSensitivity == {Sym.BHP, Sym.AGL, Sym.SOL, Sym.NPN}

\* C7: after the currency agent ran, the signal of every analysed ticker of
\* high sensitivity is REDUCE when the inflation it read is above 6.0 and HOLD
\* otherwise, with confidence 0.8 in both cases.
C7_HighSensitivity ==
    CurrencyRan =>
        \A t \in DOMAIN CurrencySignals \cap HighSensitivity :
            /\ CurrencySignals[t].fields.signal =
                   PyStr(IF InflationRead > 60000 THEN "REDUCE" ELSE "HOLD")
            /\ CurrencySignals[t].fields.confidence = PyFloat(8000)

C7_Witness ==
    /\ CurrencyRan
    /\ InflationRead = 60100
    /\ Sym.NPN \in DOMAIN CurrencySignals
    /\ CurrencySignals[Sym.NPN].fields.signal = PyStr("REDUCE")
    /\ CurrencySignals[Sym.NPN].fields.confidence = PyFloat(8000)

(***************************************************************************)
(* Claims about the order of the price requests.                           *)
(***************************************************************************)

\* the spellings of a ticker, in the order the claim gives them
Spellings(ticker) ==
    [i \in 1..4 |->
        CASE i = 1 -> ticker
          [] i = 2 -> <<"J","S","E",":">> \o ticker
          [] i = 3 -> ticker \o <<".","J","S","E">>
          [] i = 4 -> ticker \o <<".","J","O">>]

Got200(request) == ~request.exc /\ request.status = 200

PipelineTickers == {<<>>, <<Sym.NPN, Sym.AAPL>>, <<Sym.MTN, Sym.BHP>>}

PipelinePortfolios ==
    {EmptyPortfolio,
     [total_cash |-> 3000, positions |-> <<[ticker |-> Sym.NPN, shares |-> 2]>>],
     [total_cash |-> 10000,
      positions |-> SeqMap(LAMBDA t : [ticker |-> t, shares |-> 1],
                           <<Sym.NPN, Sym.SBK, Sym.MTN, Sym.BHP>>)]}

PipelineCaches ==
    {EmptyCache,
     cache_set(EmptyCache, "economic_indicators", Chars_SA_ECONOMIC_INDICATORS,
               PyDict([PlaceholderIndicators EXCEPT !.SA_CPI = 60100]))}

\* signals another agent of the pipeline left in the state
OtherSignals ==
    "technical_analyst" :>
        (Sym.NPN :> AnalystSignal(PyStr("bullish"), PyFloat(750000), PyNone, PyNone))

PipelineStates ==
    {[AgentState(tickers, portfolio) EXCEPT
        !.has_analyst_signals = present,
        !.analyst_signals = IF present THEN OtherSignals ELSE <<>>] :
       tickers \in PipelineTickers, portfolio \in PipelinePortfolios,
       present \in BOOLEAN}

InitPipeline ==
    /\ sa_config = SAMarketConfig
    /\ scenario \in PipelineScenarios
    /\ cache \in IF scenario \in EntryPoints THEN {EmptyCache} ELSE PipelineCaches
    /\ last = NoLast
    /\ fetched = {}
    /\ wrote = <<>>
    /\ remembered = NoneRemembered
    /\ pc = IF scenario \in EntryPoints THEN "cli" ELSE "idle"
    /\ state \in IF scenario \in EntryPoints THEN {NoState} ELSE PipelineStates
    /\ idx = 0
    /\ ticker_analyses = <<>>
    /\ llm_failed = {}
    /\ ran = {}

\* the end of main(): the runner returned, or an exception left it and the
\* except branch calls sys.exit(1) (sa_main.py lines 151-153, sa_backtester.py
\* lines 172-174)
MainExit ==
    /\ scenario \in EntryPoints
    /\ pc \in {"idle", "raised"}
    /\ pc' = "exit"
    /\ last' = [NoLast EXCEPT !.op = scenario, !.args = <<pc>>,
                              !.ret = SystemExit(IF pc = "raised" THEN 1 ELSE 0)]
    /\ UNCHANGED <<sa_config, adapterVars, remembered, state, idx, ticker_analyses,
                   llm_failed, ran, scenario>>

NextPipeline ==
    \/ Main
    \/ AnalystStart
    \/ AnalystIter
    \/ AnalystFinish
    \/ ComplianceAgent
    \/ CurrencyAgent
    \/ MainExit

SpecPipeline == InitPipeline /\ [][NextPipeline]_vars

(***************************************************************************)
(* Claims about the entry points.                                          *)
(***************************************************************************)

\* the process of an entry point ended
Exited == pc = "exit" /\ last.op \in EntryPoints

\* it ended in main() before the hand-over: last.args is the command line
ExitedEarly == Exited /\ Len(last.args) = 2

\* C12: for every combination of the flags an entry point documents, its
\* process ends with exit code 1 when no valid ticker remains or an exception
\* left the run, and with exit code 0 in every other case
C12_ExitCodes ==
    (Exited /\ (ExitedEarly => last.args[2] \subseteq Range(FlagsOf(last.op)))) =>
        LET no_valid_ticker ==
                /\ ExitedEarly
                /\ Range(parse_tickers(last.args[1])) \cap AllowList = {}
            exception_escaped == last.args = <<"raised">>
        IN  last.ret = SystemExit(IF no_valid_ticker \/ exception_escaped THEN 1 ELSE 0)

(***************************************************************************)
(* Claims about the result mapping of the market analyst.                  *)
(***************************************************************************)
AnalystRan == "sa_market_analyst" \in ran

AnalystSignals == state.analyst_signals["sa_market_analyst"]

\* C13 as stated: after sa_market_analyst_agent returned, its result mapping
\* has an entry for every ticker of the state's ticker list.
C13_EntryPerTicker ==
    AnalystRan => Range(state.tickers) \subseteq DOMAIN AnalystSignals

\* C13, amended: after sa_market_analyst_agent returned, its result mapping
\* has an entry for exactly the allow-listed tickers of the state's ticker
\* list, whether the LLM call for a ticker succeeded or failed.
C13_EntryPerListedTicker ==
    AnalystRan => DOMAIN AnalystSignals = Range(state.tickers) \cap AllowList

\* a run over two listed tickers: the LLM call failed for one and succeeded
\* for the other, and both have an entry
C13_Witness ==
    /\ AnalystRan
    /\ state.tickers = <<Sym.NPN, Sym.MTN>>
    /\ llm_failed = {Sym.NPN}
    /\ DOMAIN AnalystSignals = {Sym.NPN, Sym.MTN}
    /\ AnalystSignals[Sym.MTN].fields.signal = PyStr("BUY")

(***************************************************************************)
(* Claims about what a fetch returns and leaves in the cache.              *)
(***************************************************************************)

\* a typed record annotated with the currency ZAR
IsZarRecord(item) ==
    /\ DOMAIN item = {"model", "fields"}
    /\ "currency" \in DOMAIN item.fields
    /\ item.fields.currency = "ZAR"

\* typed records annotated with the currency ZAR: a list of them, or one object
TypedZar(value) ==
    CASE value.t = "list" -> \A i \in DOMAIN value.v : IsZarRecord(value.v[i])
      [] value.t = "object" -> IsZarRecord(value.v)
      [] OTHER -> FALSE

\* C14: for every data kind, what a fetch returns for a cache key that missed
\* the cache and got a reply with status 200 and a JSON object is typed records
\* annotated with the currency ZAR, and after the fetch the cache has an entry
\* for the key
C14_MissReturnsTypedZarAndCaches ==
    last.op \in FetchOps =>
        \A k \in DOMAIN last.by_key :
            (last.by_key[k].src = "ok" /\ last.by_key[k].ret.t # "raise") =>
                /\ TypedZar(last.by_key[k].ret)
                /\ k[2] \in DOMAIN cache[k[1]]

\* a step of main() from the command line to the hand-over or the early exit
InMain == last.op \in EntryPoints /\ Len(last.args) = 2

\* the allow-listed tickers of a --ticker argument, in input order
ListedOf(ticker_arg) == SelectSeq(parse_tickers(ticker_arg), LAMBDA t : t \in AllowList)

\* C15: main() of an entry point issues no request; it invokes the runner at
\* most once, with exactly the tickers of the --ticker argument that are
\* allow-listed, in input order; when none is allow-listed the runner is not
\* invoked and the process exits with a nonzero code
C15_RunnerAfterValidation ==
    InMain =>
        /\ last.http = <<>>
        /\ Len(last.calls) <= 1
        /\ \A i \in DOMAIN last.calls :
              /\ last.calls[i].fn \in Runners
              /\ last.calls[i].ticker = ListedOf(last.args[1])
              /\ last.calls[i].ticker # <<>>
              /\ state.tickers = last.calls[i].ticker
        /\ ListedOf(last.args[1]) = <<>> =>
              /\ last.calls = <<>>
              /\ last.ret.t = "exit" /\ last.ret.v # 0
        /\ last.calls = <<>> => pc = "exit"

\* " MTN,npn,AAPL" without the third part: both tickers pass, in input order
C15_Witness ==
    /\ InMain
    /\ last.args[1] = <<" ","M","T","N",",","n","p","n">>
    /\ Len(last.calls) = 1
    /\ last.calls[1].fn = "run_hedge_fund"
    /\ last.calls[1].ticker = <<Sym.MTN, Sym.NPN>>
    /\ pc = "idle"

(***************************************************************************)
(* Claims about the three agents on one shared state.                      *)
(***************************************************************************)

\* the step recorded in `last` invoked the language model
LlmInvoked == \E i \in DOMAIN last.calls : last.calls[i].fn = "llm.invoke"

MediumSensitivity == {Sym.MTN, Sym.VOD, Sym.SBK, Sym.FSR, Sym.NED, Sym.ABG}

\* signal and confidence of the compliance agent as a function of the portfolio
ComplianceOf ==
    IF PositionsWithinLimit /\ SectorsWithinLimit
    THEN <<PyStr("COMPLIANT"), PyFloat(10000)>>
    ELSE <<PyStr("NON_COMPLIANT"), PyFloat(8000)>>

\* signal and confidence of the currency agent as a function of the ticker,
\* the sensitivity table and the inflation indicator
CurrencyOf(ticker, inflation) ==
    IF ticker \in HighSensitivity
    THEN <<PyStr(IF inflation > 60000 THEN "REDUCE" ELSE "HOLD"), PyFloat(8000)>>
    ELSE IF ticker \in MediumSensitivity THEN <<PyStr("HOLD"), PyFloat(6000)>>
    ELSE <<PyStr("BUY"), PyFloat(7000)>>

\* C16: a run of sa_regulatory_compliance_agent or of sa_currency_risk_agent
\* does not invoke the language model and issues no request, and its signals
\* are a function of the portfolio, the ticker list, the static tables and the
\* economic indicators: COMPLIANT / 1.0 exactly when the position and sector
\* limits hold, else NON_COMPLIANT / 0.8; per allow-listed ticker the signal
\* the sensitivity table and the inflation indicator determine
C16_NoLlmDeterministic ==
    /\ (last.op = "sa_regulatory_compliance_agent" /\ last.ret = Returned) =>
          /\ ~LlmInvoked /\ last.http = <<>>
          /\ <<ComplianceSignal.signal, ComplianceSignal.confidence>> = ComplianceOf
    /\ last.op = "sa_currency_risk_agent" =>
          /\ ~LlmInvoked /\ last.http = <<>>
          /\ DOMAIN CurrencySignals = Range(state.tickers) \cap AllowList
          /\ \A t \in DOMAIN CurrencySignals :
                <<CurrencySignals[t].fields.signal, CurrencySignals[t].fields.confidence>>
                    = CurrencyOf(t, InflationRead)

\* the currency agent ran after the market analyst, whose LLM call failed for
\* one ticker, and after the compliance agent; an inflation of 6.01 was cached
C16_Witness ==
    /\ last.op = "sa_currency_risk_agent"
    /\ ran = {"sa_market_analyst", "sa_regulatory_compliance", "sa_currency_risk"}
    /\ llm_failed = {Sym.MTN}
    /\ InflationRead = 60100
    /\ state.tickers = <<Sym.MTN, Sym.BHP>>
    /\ CurrencySignals[Sym.BHP].fields.signal = PyStr("REDUCE")
    /\ CurrencySignals[Sym.MTN].fields.signal = PyStr("HOLD")
    /\ ComplianceSignal.signal = PyStr("NON_COMPLIANT")

SAAgents == {"sa_market_analyst", "sa_regulatory_compliance", "sa_currency_risk"}

\* a confidence in the range [0, 1], in ten-thousandths
InUnitRange(confidence) ==
    confidence.t = "float" /\ confidence.v >= 0 /\ confidence.v <= 10000

\* C17: every signal that one of the three agents stored in the shared results
\* mapping has a confidence in the range [0, 1]
C17_ConfidenceInUnitRange ==
    \A agent \in DOMAIN state.analyst_signals \cap SAAgents :
        \A key \in DOMAIN state.analyst_signals[agent] :
            InUnitRange(state.analyst_signals[agent][key].fields.confidence)

(***************************************************************************)
(* Claims about the lifetime of cache entries.                             *)
(***************************************************************************)

\* C18: no step of the adapter removes a cache entry or changes its value:
\* a key that is present stays present with the value it holds
C18_EntriesKept ==
    [][\A kind \in CacheKinds :
          \A key \in DOMAIN cache[kind] :
              key \in DOMAIN cache'[kind] /\ cache'[kind][key] = cache[kind][key]]_vars

(***************************************************************************)
(* Claims about the market configuration and the shared state.             *)
(***************************************************************************)
ConfigFacts ==
    /\ sa_config.CURRENCY = "ZAR"
    /\ sa_config.EXCHANGE_NAME = "JSE"
    /\ sa_config.REGULATORY_BODY = "FSCA"
    /\ Len(sa_config.TOP_STOCKS) >= 20
    /\ Len(sa_config.SECTORS) >= 10
    /\ Len(sa_config.RISK_FACTORS) >= 5
    /\ Len(sa_config.ECONOMIC_INDICATORS) >= 5

\* C19: no step of an entry point, of an agent or of the adapter calls an
\* agent makes changes the market configuration, and in every reachable state
\* it has currency ZAR, exchange JSE, regulatory body FSCA, at least 20
\* allow-listed tickers, 10 sectors, 5 risk factors and 5 economic indicators
C19_ConfigImmutable == [][sa_config' = sa_config]_vars /\ []ConfigFacts

\* the three agents ran, having read the configuration and filled the cache
C19_Witness ==
    /\ ran = SAAgents
    /\ cache # EmptyCache
    /\ ComplianceSignal.reasoning.v.regulatory_body = "FSCA"
    /\ ConfigFacts

\* the agent names whose entry a step created or changed
Written ==
    {agent \in DOMAIN state'.analyst_signals :
        \/ agent \notin DOMAIN state.analyst_signals
        \/ state'.analyst_signals[agent] # state.analyst_signals[agent]}

\* C20: a step creates or changes the entry of no agent name but that of the
\* agent that returned in it and removes no entry; once an agent returned, the
\* analyst_signals mapping exists and holds an entry under the name of every
\* agent that returned, so after the three agents ran, in any order, the three
\* entries are present
C20_OwnEntryOnly ==
    /\ [][/\ Written \subseteq ran' \ ran
          /\ DOMAIN state.analyst_signals \subseteq DOMAIN state'.analyst_signals]_vars
    /\ [](ran # {} => (state.has_analyst_signals /\ ran \subseteq DOMAIN state.analyst_signals))

\* the three agents ran on a state that held the entry of another agent, which
\* is still there
C20_Witness ==
    /\ ran = SAAgents
    /\ DOMAIN state.analyst_signals = SAAgents \cup DOMAIN OtherSignals
    /\ \A agent \in DOMAIN OtherSignals : state.analyst_signals[agent] = OtherSignals[agent]
    /\ DOMAIN state.analyst_signals["sa_currency_risk"] = {Sym.MTN, Sym.BHP}

(***************************************************************************)
(* Claims about the model selection of the entry points.                   *)
(***************************************************************************)

\* a command line of documented flags with at least one allow-listed ticker
RunnableCommandLine ==
    /\ InMain
    /\ last.args[2] \subseteq Range(FlagsOf(last.op))
    /\ ListedOf(last.args[1]) # <<>>

\* C21: for a command line with a valid ticker the runner is handed model
\* llama3.1:8b and provider Ollama when --ollama is given, gpt-4o-mini and
\* OpenAI when it is not, and in place of these the value passed with
\* --model-name or --model-provider when that flag is given
C21_ModelSelection ==
    RunnableCommandLine =>
        LET flags == last.args[2]
        IN  /\ Len(last.calls) = 1
            /\ last.calls[1].model_name =
                  (IF "--model-name" \in flags THEN "given-model"
                   ELSE IF "--ollama" \in flags THEN "llama3.1:8b" ELSE "gpt-4o-mini")
            /\ last.calls[1].model_provider =
                  (IF "--model-provider" \in flags THEN "GivenProvider"
                   ELSE IF "--ollama" \in flags THEN "Ollama" ELSE "OpenAI")

(***************************************************************************)
(* The signal of the compliance agent and the key it is stored under.      *)
(***************************************************************************)
ComplianceEntry == state.analyst_signals["sa_regulatory_compliance"]

\* C22: after the compliance agent ran, its entry of the results mapping has
\* the single key PORTFOLIO, and the signal stored there is COMPLIANT with
\* confidence 1.0 when the compliance-issues list is empty and NON_COMPLIANT
\* with confidence 0.8 when it is not.
C22_SignalFollowsIssues ==
    ComplianceRan =>
        /\ DOMAIN ComplianceEntry = {"PORTFOLIO"}
        /\ (ComplianceSignal.signal = PyStr("COMPLIANT")) <=> (ComplianceIssues = <<>>)
        /\ (ComplianceSignal.confidence = PyFloat(10000)) <=> (ComplianceIssues = <<>>)
        /\ ComplianceIssues = <<>> \/
              /\ ComplianceSignal.signal = PyStr("NON_COMPLIANT")
              /\ ComplianceSignal.confidence = PyFloat(8000)

C22_Witness ==
    /\ ComplianceRan
    /\ Len(ComplianceIssues) = 2
    /\ DOMAIN ComplianceEntry = {"PORTFOLIO"}
    /\ ComplianceSignal.signal = PyStr("NON_COMPLIANT")
    /\ ComplianceSignal.confidence = PyFloat(8000)

(***************************************************************************)
(* Portfolios spread over fewer than four sectors.                         *)
(***************************************************************************)
\* the positions with shares > 0
PositivePositions == SelectSeq(state.portfolio.positions, LAMBDA p : p.shares > 0)

\* the sectors of the sector-mapped tickers held with shares > 0
SectorsHeld ==
    {sector_mapping[PositivePositions[i].ticker] :
        i \in {j \in DOMAIN PositivePositions :
                  PositivePositions[j].ticker \in DOMAIN sector_mapping}}

HasSectorIssue ==
    \E i \in DOMAIN ComplianceIssues : "sector" \in DOMAIN ComplianceIssues[i]

NonCompliantBySector ==
    /\ ComplianceSignal.signal = PyStr("NON_COMPLIANT")
    /\ HasSectorIssue

C24_NoSharesNoCash ==
    /\ last.op = "sa_regulatory_compliance_agent" =>
           /\ last.ret = Returned
           /\ pc # "raised"
           /\ ComplianceRan
    /\ ComplianceRan =>
           LET held == [state.portfolio EXCEPT !.positions = PositivePositions]
           IN  /\ ComplianceIssues =
                      compliance_signal(held).fields.reasoning.v.compliance_issues
               /\ \A i \in DOMAIN ComplianceIssues :
                      "ticker" \in DOMAIN ComplianceIssues[i] =>
                          /\ state.portfolio.total_cash > 0
                          /\ \E j \in DOMAIN PositivePositions :
                                 PositivePositions[j].ticker = ComplianceIssues[i].ticker

C24_Witness ==
    /\ ComplianceRan
    /\ last.ret = Returned
    /\ state.portfolio = [total_cash |-> 0,
                          positions |-> <<[ticker |-> Sym.NPN, shares |-> 2],
                                          [ticker |-> Sym.SBK, shares |-> -1],
                                          [ticker |-> Sym.MTN, shares |-> 0]>>]
    /\ Len(ComplianceIssues) = 1
    /\ ComplianceIssues[1].sector = sector_mapping[Sym.NPN]
    /\ ComplianceIssues[1].current_exposure = <<"1", "0", "0", ".", "0", "0", "%">>

(***************************************************************************)
(* The signals of the currency agent per sensitivity.                      *)
(***************************************************************************)
\* C25: after the currency agent ran, its entry holds one signal for each
\* allow-listed ticker of the ticker list and for no other ticker; each signal
\* is REDUCE, HOLD or BUY; a ticker of medium sensitivity has HOLD with
\* confidence 0.6, a ticker of low sensitivity and an allow-listed ticker absent
\* from the sensitivity table (IMP, ANG, AMS) have BUY with confidence 0.7 and
\* the sensitivity low; max_position_size is 0.03 exactly when the sensitivity
\* is high and 0.05 otherwise.
C25_SignalPerSensitivity ==
    /\ AllowList \ DOMAIN currency_sensitive_stocks = {Sym.IMP, Sym.ANG, Sym.AMS}
    /\ CurrencyRan =>
           /\ DOMAIN CurrencySignals = Range(state.tickers) \cap AllowList
           /\ \A t \in DOMAIN CurrencySignals :
                  LET fields == CurrencySignals[t].fields
                  IN  /\ fields.signal \in {PyStr("REDUCE"), PyStr("HOLD"), PyStr("BUY")}
                      /\ t \in MediumSensitivity =>
                             /\ fields.signal = PyStr("HOLD")
                             /\ fields.confidence = PyFloat(6000)
                      /\ t \notin HighSensitivity \cup MediumSensitivity =>
                             /\ fields.signal = PyStr("BUY")
                             /\ fields.confidence = PyFloat(7000)
                             /\ fields.reasoning.v.currency_sensitivity = "low"
                      /\ fields.max_position_size =
                             PyFloat(IF t \in HighSensitivity THEN 300 ELSE 500)

C25_Witness ==
    /\ CurrencyRan
    /\ state.tickers = <<Sym.MTN, Sym.IMP>>
    /\ DOMAIN CurrencySignals = {Sym.MTN, Sym.IMP}
    /\ CurrencySignals[Sym.MTN].fields.signal = PyStr("HOLD")
    /\ CurrencySignals[Sym.MTN].fields.confidence = PyFloat(6000)
    /\ CurrencySignals[Sym.IMP].fields.signal = PyStr("BUY")
    /\ CurrencySignals[Sym.IMP].fields.confidence = PyFloat(7000)
    /\ CurrencySignals[Sym.IMP].fields.max_position_size = PyFloat(500)

(***************************************************************************)
(* The position size the agents recommend and the regulatory limit.        *)
(***************************************************************************)
\* C26: every signal that one of the three agents stored in the shared results
\* mapping has a max_position_size that is a number of at most the configured
\* limit MAX_POSITION_SIZE (0.05)
C26_MaxPositionWithinLimit ==
    \A agent \in DOMAIN state.analyst_signals \cap SAAgents :
        \A key \in DOMAIN state.analyst_signals[agent] :
            LET size == state.analyst_signals[agent][key].fields.max_position_size
            IN  /\ size.t = "float"
                /\ size.v <= sa_config.MAX_POSITION_SIZE
                /\ sa_config.MAX_POSITION_SIZE = 500
====
